---- MODULE Spec2Model ----
(***************************************************************************)
(* State-machine model of the brain-ai cognitive retrieval engine.         *)
(*                                                                         *)
(* Part 1: vector_search::HNSWIndex (src/vector_search/hnsw_index.cpp).    *)
(* Part 2: EpisodicBuffer (src/episodic_buffer.cpp).                       *)
(* Part 3: SemanticNetwork, HybridFusion, HallucinationDetector and the    *)
(*         CognitiveHandler that composes them (src/cognitive_handler.cpp).*)
(*                                                                         *)
(* Floats are modelled as exact rationals <<num, den>> with den > 0; the   *)
(* embeddings drawn as inputs have integral L2 norms, so normalisation,    *)
(* inner products and similarities stay rational.                          *)
(***************************************************************************)
EXTENDS Integers, Sequences, FiniteSets, TLC

(***************************************************************************)
(* Bounds of the model and program constants.                              *)
(***************************************************************************)
Dim == 2                        \* dimension the index is constructed with
MaxElements == 2                \* max_elements the index is constructed with
DefaultM == 16
DefaultEfConstruction == 200
DefaultEfSearch == 50
ForeignEfSearch == 100          \* ef_search of the snapshot another index saved

DocIds == {"d1", "d2"}
Contents == {"c1", "c2"}
Metadatas == {"{}"}
OwnPath == "own.bin"
ForeignPath == "foreign.bin"
Paths == {OwnPath, ForeignPath}

UnitVec(n, i) == [j \in 1..n |-> IF j = i THEN 1 ELSE 0]
ScaleVec(c, v) == [j \in 1..Len(v) |-> c * v[j]]
ShortVec == UnitVec(Dim - 1, 1)                 \* an embedding of the wrong length
ZeroVec == ScaleVec(0, UnitVec(Dim, 1))         \* an embedding of norm 0
Embeddings == {UnitVec(Dim, 1), UnitVec(Dim, Dim), ScaleVec(2, UnitVec(Dim, 1)), ShortVec,
               ZeroVec}
TopKs == 0..(MaxElements + 1)

Capacity == 2                   \* capacity the episodic buffer is constructed with
MaxClock == 2                   \* the clock readings are 1..MaxClock milliseconds
MaxAdds == Capacity + 2         \* add_episode calls followed between two clear()
MaxFileLines == Capacity + 1    \* records of an episode file

\* Texts are sequences of characters.
EmptyText == <<>>
Alpha == <<"a", "l", "p", "h", "a">>
Beta == <<"b", "e", "t", "a">>
WhatBeta == <<"W", "h", "a", "t", " ", "b", "e", "t", "a">>                  \* "What beta"
Concepts == {Alpha, Beta}                       \* concept names of the graph
NodeA == <<"A">>
NodeB == <<"B">>
NodeC == <<"C">>
NodeD == <<"D">>                                 \* a name that is never a node
GraphNames == {NodeA, NodeB, NodeC}
GraphWeights == {<<1, 1>>, <<2, 1>>}            \* edge weights 1.0 and 2.0
\* the edges add_edge is called with: a self-loop, a cycle, a chain, a fork
GraphEdges == {<<NodeA, NodeA>>, <<NodeA, NodeB>>, <<NodeB, NodeA>>, <<NodeB, NodeC>>,
               <<NodeA, NodeC>>}
MaxEdges == 2                                   \* edges of the graphs explored
MaxHops == 2                                    \* max_hops is drawn from 0..MaxHops
HandlerQueries == {Alpha, WhatBeta}
HandlerContents == {Alpha, EmptyText}
EdgeWeights == {<<1, 1>>, <<1, 10>>}            \* edge weights 1.0 and 0.1
EpisodeQueries == {"q1", "q2"}
EpisodeEmbeddings == {UnitVec(Dim, 1), UnitVec(Dim, Dim)}

VARIABLES
    \* HNSWIndex fields
    dim_, max_elements_, M_, ef_construction_, ef_search_, space_type_,
    index_, documents_, internal_id_to_doc_id_, next_internal_id_,
    \* the snapshot file pairs on disk, by path
    disk,
    \* the last API call and what it returned
    last,
    \* history: ids ever assigned; ids assigned, successful removes, doc_ids
    \* removed and not added again, doc_ids ever added and ever removed, all
    \* since construction or the last clear(); and the index as it was when
    \* save() last wrote OwnPath
    usedIds, epochIds, removeCount, removedDocs, addedDocIds, removedDocIds, saved,
    \* history: what the index held when clear() was called ("never" called,
    \* called when "populated", called when "tombstoned")
    cleared,
    \* history: the embedding each live document was added with
    embeddingOf,
    \* EpisodicBuffer fields
    buffer_, max_capacity_,
    \* the wall clock, in milliseconds
    now,
    \* history: the episodes add_episode appended since construction or the
    \* last clear()
    inserted,
    \* SemanticNetwork::nodes_ and HybridFusion::weights_
    nodes_, weights_,
    \* what the last process_query or batch_index_documents call gave back
    response_,
    \* the calling threads: where each is in its call, and the calls in the
    \* order in which they took the lock
    threads,
    \* std::mutex mutex_ of the object the threads call: "free" or its holder
    mutex_,
    \* CircuitBreaker fields
    breaker_

indexFields == <<dim_, max_elements_, M_, ef_construction_, ef_search_, space_type_,
                 index_, documents_, internal_id_to_doc_id_, next_internal_id_>>
indexState == <<indexFields, disk>>
indexHistory == <<usedIds, epochIds, removeCount, removedDocs, addedDocIds,
                  removedDocIds, saved, cleared, embeddingOf>>

indexVars == <<indexState, indexHistory>>
bufferState == <<buffer_, max_capacity_>>
bufferVars == <<bufferState, now, inserted>>

handlerVars == <<nodes_, weights_, response_>>

threadVars == <<threads, mutex_, breaker_>>

vars == <<indexVars, bufferVars, handlerVars, threadVars, last>>

(***************************************************************************)
(* Arithmetic helpers.                                                     *)
(***************************************************************************)
Min(a, b) == IF a < b THEN a ELSE b

RECURSIVE DotUpTo(_, _, _)
DotUpTo(a, b, n) == IF n = 0 THEN 0 ELSE a[n] * b[n] + DotUpTo(a, b, n - 1)
Dot(a, b) == DotUpTo(a, b, Len(a))

\* std::sqrt on the perfect squares the inputs produce
Sqrt(n) == CHOOSE r \in 0..n : r * r = n

RatLess(a, b) == a[1] * b[2] < b[1] * a[2]
RatEq(a, b) == a[1] * b[2] = b[1] * a[2]
RatLeq(a, b) == a[1] * b[2] <= b[1] * a[2]

(***************************************************************************)
(* HNSWIndex::normalize_vector: divide by the L2 norm unless it is (about) *)
(* zero.  A float vector is the pair [num, den] standing for num / den.    *)
(***************************************************************************)
normalize_vector(vec) ==
    LET norm == Sqrt(Dot(vec.num, vec.num))
    IN  IF norm > 0 THEN [num |-> vec.num, den |-> vec.den * norm] ELSE vec

FloatVec(v) == [num |-> v, den |-> 1]

(***************************************************************************)
(* hnswlib::HierarchicalNSW, as used by HNSWIndex: a capacity-bounded set  *)
(* of labelled points with a deleted mark, searched exactly.               *)
(***************************************************************************)
HnswNew(space, cap, ef) == [space |-> space, cap |-> cap, ef |-> ef, pts |-> <<>>]

HnswCanAdd(h, label) == label \in DOMAIN h.pts \/ Cardinality(DOMAIN h.pts) < h.cap

addPoint(h, vec, label) ==
    [h EXCEPT !.pts = [l \in DOMAIN h.pts \cup {label} |->
                          IF l = label THEN [vec |-> vec, del |-> FALSE] ELSE h.pts[l]]]

HnswCanDelete(h, label) == label \in DOMAIN h.pts /\ ~h.pts[label].del

markDelete(h, label) == [h EXCEPT !.pts[label].del = TRUE]

\* distance of the space: inner product space gives -dot(a, b), l2 the
\* squared distance
SpaceDistance(space, a, b) ==
    IF space = "ip"
    THEN <<-Dot(a.num, b.num), a.den * b.den>>
    ELSE LET d == [j \in 1..Len(a.num) |-> a.num[j] * b.den - b.num[j] * a.den]
         IN  <<Dot(d, d), a.den * a.den * b.den * b.den>>

\* (distance, label) pairs compare as std::pair does
PairLess(p, q) == RatLess(p[1], q[1]) \/ (RatEq(p[1], q[1]) /\ p[2] < q[2])

RECURSIVE SortAsc(_)
SortAsc(S) ==
    IF S = {} THEN <<>>
    ELSE LET m == CHOOSE x \in S : \A y \in S \ {x} : PairLess(x, y)
         IN  <<m>> \o SortAsc(S \ {m})

Reverse(s) == [i \in 1..Len(s) |-> s[Len(s) + 1 - i]]

\* searchKnn: the k nearest points that are not marked deleted, as the
\* max-heap the library returns, listed in the order top()/pop() yields them
\* (farthest first)
searchKnn(h, q, k) ==
    LET live == {l \in DOMAIN h.pts : ~h.pts[l].del}
        pairs == {<<SpaceDistance(h.space, q, h.pts[l].vec), l>> : l \in live}
        asc == SortAsc(pairs)
    IN  Reverse(SubSeq(asc, 1, Min(k, Len(asc))))

(***************************************************************************)
(* utils.hpp: strings                                                      *)
(***************************************************************************)
UpperCase == <<"A", "B", "C", "D", "E", "F", "G", "H", "I", "J", "K", "L", "M",
              "N", "O", "P", "Q", "R", "S", "T", "U", "V", "W", "X", "Y", "Z">>
LowerCase == <<"a", "b", "c", "d", "e", "f", "g", "h", "i", "j", "k", "l", "m",
              "n", "o", "p", "q", "r", "s", "t", "u", "v", "w", "x", "y", "z">>

\* std::tolower in the "C" locale
tolower(c) ==
    IF \E i \in 1..Len(UpperCase) : UpperCase[i] = c
    THEN LowerCase[CHOOSE i \in 1..Len(UpperCase) : UpperCase[i] = c]
    ELSE c

\* to_lowercase
RECURSIVE to_lowercase(_)
to_lowercase(str) ==
    IF str = <<>> THEN <<>>
    ELSE <<tolower(Head(str))>> \o to_lowercase(Tail(str))

\* tokenize, the loop over the characters of text from position i on
RECURSIVE TokenizeFrom(_, _, _, _, _)
TokenizeFrom(text, delimiter, i, token, tokens) ==
    IF i > Len(text)
    THEN IF token # <<>> THEN Append(tokens, token) ELSE tokens
    ELSE IF text[i] = delimiter
    THEN IF token # <<>>
         THEN TokenizeFrom(text, delimiter, i + 1, <<>>, Append(tokens, token))
         ELSE TokenizeFrom(text, delimiter, i + 1, token, tokens)
    ELSE TokenizeFrom(text, delimiter, i + 1, Append(token, text[i]), tokens)

\* tokenize with the default delimiter
tokenize(text) == TokenizeFrom(text, " ", 1, <<>>, <<>>)

\* Body(value), with value computed once
With(value, Body(_)) == CHOOSE result \in {Body(v) : v \in {value}} : TRUE

\* std::string::find(needle) != npos
Contains(haystack, needle) ==
    \E h \in {haystack} :
        \E i \in 0..(Len(h) - Len(needle)) : SubSeq(h, i + 1, i + Len(needle)) = needle

(***************************************************************************)
(* HNSWIndex                                                               *)
(***************************************************************************)
DocumentMetadata(id, text, meta, iid) ==
    [doc_id |-> id, content |-> text, metadata |-> meta, internal_id |-> iid]

DefaultDocumentMetadata == DocumentMetadata("", "", "null", 0)

SearchResult(id, text, sim, meta) ==
    [doc_id |-> id, content |-> text, similarity |-> sim, metadata |-> meta]

\* the index as one value
IndexRec == [dim |-> dim_, max_elements |-> max_elements_, M |-> M_,
             ef_construction |-> ef_construction_, ef_search |-> ef_search_,
             space_type |-> space_type_, index |-> index_,
             documents |-> documents_, imap |-> internal_id_to_doc_id_,
             next_internal_id |-> next_internal_id_]

initialize_index(space_type, max_elements, ef_search) ==
    HnswNew(space_type, max_elements, ef_search)

\* (mutation: the "+ 1" of the conversion is dropped)
ip_to_similarity_Unshifted(ip_distance) == <<-ip_distance[1], 2 * ip_distance[2]>>

ip_to_similarity(ip_distance) == <<-ip_distance[1] + ip_distance[2], 2 * ip_distance[2]>>

l2_to_similarity(distance) == <<distance[2], distance[2] + distance[1]>>

PrepareVector(space_type, embedding) ==
    IF space_type = "ip" THEN normalize_vector(FloatVec(embedding)) ELSE FloatVec(embedding)

DimensionMatches(ix, embedding) == Len(embedding) = ix.dim

\* (mutation: the duplicate check is skipped)
AlreadyPresent_Never(docs, doc_id) == FALSE

AlreadyPresent(docs, doc_id) == doc_id \in DOMAIN docs

\* (mutation: the counter is not advanced)
NextInternalId_Stuck(next_internal_id) == next_internal_id

\* next_internal_id_++
NextInternalId(next_internal_id) == next_internal_id + 1

\* (mutation: the capacity check is off by one)
IndexIsFull_OffByOne(next_internal_id, max_elements) == next_internal_id > max_elements

IndexIsFull(next_internal_id, max_elements) == next_internal_id >= max_elements

\* search's conversion loop: pop the heap, keep the labels that still map to
\* a document, then reverse
RECURSIVE ConvertResults(_, _)
ConvertResults(ix, result) ==
    IF result = <<>> THEN <<>>
    ELSE LET pair == Head(result)
             similarity == IF ix.space_type = "ip" THEN ip_to_similarity(pair[1])
                           ELSE l2_to_similarity(pair[1])
             rest == ConvertResults(ix, Tail(result))
         IN  IF pair[2] \in DOMAIN ix.imap
             THEN LET id == ix.imap[pair[2]]
                      doc == IF id \in DOMAIN ix.documents THEN ix.documents[id]
                             ELSE DefaultDocumentMetadata
                  IN  <<SearchResult(doc.doc_id, doc.content, similarity, doc.metadata)>> \o rest
             ELSE rest

\* (mutation: top_k is ignored)
ActualK_All(top_k, next_internal_id) == next_internal_id

\* "Limit top_k to available documents"
ActualK(top_k, next_internal_id) == Min(top_k, next_internal_id)

\* HNSWIndex::search for a query of the index's dimension (any other query
\* throws std::invalid_argument)
SearchOn(ix, query, top_k) ==
    IF ix.next_internal_id = 0 THEN <<>>
    ELSE LET normalized_query == PrepareVector(ix.space_type, query)
             actual_k == ActualK(top_k, ix.next_internal_id)
             result == searchKnn(ix.index, normalized_query, actual_k)
         IN  Reverse(ConvertResults(ix, result))

search(query, top_k) == SearchOn(IndexRec, query, top_k)

SearchThrows(ix, query) == ~DimensionMatches(ix, query)

DocIdsOf(results) == [i \in 1..Len(results) |-> results[i].doc_id]

has_document(doc_id) == doc_id \in DOMAIN documents_

size == Cardinality(DOMAIN documents_)

Called(op, arg, ret) == last' = [op |-> op, arg |-> arg, ret |-> ret, dim |-> dim_]

NoFile == [present |-> FALSE]
NoSave == [present |-> FALSE]

\* the snapshot an index of dimension Dim - 1 wrote at ForeignPath
ForeignSnapshot ==
    LET vec == PrepareVector("l2", ShortVec)
        doc == DocumentMetadata("d1", "c1", "{}", 0)
    IN  [present |-> TRUE,
         meta |-> [dim |-> Dim - 1, max_elements |-> MaxElements + 1, M |-> DefaultM,
                   ef_construction |-> DefaultEfConstruction,
                   ef_search |-> ForeignEfSearch, space_type |-> "l2",
                   next_internal_id |-> 1, documents |-> {doc}],
         bin |-> addPoint(HnswNew("l2", MaxElements + 1, ForeignEfSearch), vec, 0)]

\* HNSWIndex::HNSWIndex(dim, max_elements, M, ef_construction, space_type)
InitIndex ==
    /\ dim_ = Dim
    /\ max_elements_ = MaxElements
    /\ M_ = DefaultM
    /\ ef_construction_ = DefaultEfConstruction
    /\ ef_search_ = DefaultEfSearch
    /\ space_type_ = "ip"
    /\ next_internal_id_ = 0
    /\ index_ = initialize_index("ip", MaxElements, DefaultEfSearch)
    /\ documents_ = <<>>
    /\ internal_id_to_doc_id_ = <<>>
    /\ disk = [p \in Paths |-> IF p = ForeignPath THEN ForeignSnapshot ELSE NoFile]
    /\ usedIds = {}
    /\ epochIds = <<>>
    /\ removeCount = 0
    /\ removedDocs = {}
    /\ addedDocIds = {}
    /\ removedDocIds = {}
    /\ cleared = "never"
    /\ embeddingOf = <<>>
    /\ saved = NoSave

StoreDocument(docs, doc_id, content, metadata, internal_id) ==
    [d \in DOMAIN docs \cup {doc_id} |->
        IF d = doc_id THEN DocumentMetadata(doc_id, content, metadata, internal_id)
        ELSE docs[d]]

StoreMapping(imap, internal_id, doc_id) ==
    [i \in DOMAIN imap \cup {internal_id} |-> IF i = internal_id THEN doc_id ELSE imap[i]]

\* (mutation: the entry is not erased)
Erase_Nothing(f, key) == f

\* unordered_map::erase
Erase(f, key) == [k \in DOMAIN f \ {key} |-> f[k]]

\* HNSWIndex::add_document
AddDocument(doc_id, embedding, content, metadata) ==
    IF AlreadyPresent(documents_, doc_id)
    THEN /\ Called("add_document", doc_id, "false")
         /\ UNCHANGED indexState
    ELSE IF ~DimensionMatches(IndexRec, embedding)
    THEN /\ Called("add_document", doc_id, "invalid_argument")
         /\ UNCHANGED indexState
    ELSE IF IndexIsFull(next_internal_id_, max_elements_)
    THEN /\ Called("add_document", doc_id, "runtime_error")
         /\ UNCHANGED indexState
    ELSE LET normalized_embedding == PrepareVector(space_type_, embedding)
             internal_id == next_internal_id_
         IN  /\ next_internal_id_' = NextInternalId(next_internal_id_)
             /\ UNCHANGED <<dim_, max_elements_, M_, ef_construction_, ef_search_,
                            space_type_, disk>>
             /\ IF HnswCanAdd(index_, internal_id)
                THEN /\ index_' = addPoint(index_, normalized_embedding, internal_id)
                     /\ documents_' = StoreDocument(documents_, doc_id, content,
                                                    metadata, internal_id)
                     /\ internal_id_to_doc_id_' =
                            StoreMapping(internal_id_to_doc_id_, internal_id, doc_id)
                     /\ Called("add_document", doc_id, "true")
                ELSE \* addPoint throws after the counter was advanced
                     /\ UNCHANGED <<index_, documents_, internal_id_to_doc_id_>>
                     /\ Called("add_document", doc_id, "runtime_error")

\* HNSWIndex::remove_document
RemoveDocument(doc_id) ==
    IF doc_id \notin DOMAIN documents_
    THEN /\ Called("remove_document", doc_id, "false")
         /\ UNCHANGED indexState
    ELSE LET internal_id == documents_[doc_id].internal_id
         IN  IF ~HnswCanDelete(index_, internal_id)
             THEN \* markDelete throws
                  /\ Called("remove_document", doc_id, "runtime_error")
                  /\ UNCHANGED indexState
             ELSE /\ index_' = markDelete(index_, internal_id)
                  /\ internal_id_to_doc_id_' = Erase(internal_id_to_doc_id_, internal_id)
                  /\ documents_' = Erase(documents_, doc_id)
                  /\ Called("remove_document", doc_id, "true")
                  /\ UNCHANGED <<dim_, max_elements_, M_, ef_construction_, ef_search_,
                                 space_type_, next_internal_id_, disk>>

\* "next_internal_id_ = 0" of HNSWIndex::clear
ResetInternalId_Kept(next) == next

ResetInternalId(next) == 0

\* HNSWIndex::clear
Clear ==
    /\ index_' = initialize_index(space_type_, max_elements_, ef_search_)
    /\ documents_' = <<>>
    /\ internal_id_to_doc_id_' = <<>>
    /\ next_internal_id_' = ResetInternalId(next_internal_id_)
    /\ Called("clear", "", "void")
    /\ UNCHANGED <<dim_, max_elements_, M_, ef_construction_, ef_search_, space_type_,
                   disk>>

\* the JSON sidecar save() writes
MetaOf(ix) ==
    [dim |-> ix.dim, max_elements |-> ix.max_elements, M |-> ix.M,
     ef_construction |-> ix.ef_construction, ef_search |-> ix.ef_search,
     space_type |-> ix.space_type, next_internal_id |-> ix.next_internal_id,
     documents |-> {ix.documents[d] : d \in DOMAIN ix.documents}]

\* HNSWIndex::save
Save(path) ==
    /\ disk' = [disk EXCEPT ![path] = [present |-> TRUE, meta |-> MetaOf(IndexRec),
                                       bin |-> index_]]
    /\ Called("save", path, "true")
    /\ UNCHANGED indexFields

\* hnswlib loadIndex into a freshly built structure
loadIndex(fresh, bin, max_elements_i) ==
    [fresh EXCEPT !.cap = IF max_elements_i < Cardinality(DOMAIN bin.pts)
                          THEN bin.cap ELSE max_elements_i,
                  !.pts = bin.pts]

DocumentsOf(docs) ==
    [d \in {r.doc_id : r \in docs} |-> CHOOSE r \in docs : r.doc_id = d]

\* the mappings "internal_id_to_doc_id_[internal_id] = doc_id" can leave after
\* the restore loop ran over the documents array in its stored order
MappingsOf(docs) ==
    {f \in [{r.internal_id : r \in docs} -> {r.doc_id : r \in docs}] :
        \A i \in DOMAIN f : \E r \in docs : r.internal_id = i /\ r.doc_id = f[i]}

Damages == {"none", "no_meta", "bad_meta", "no_bin"}

\* HNSWIndex::load; damage is what happened to the file pair since it was
\* written (sidecar deleted, sidecar truncated, binary deleted)
Load(path, damage) ==
    LET file == disk[path] IN
    IF ~file.present \/ damage \in {"no_meta", "bad_meta"}
    THEN /\ Called("load", path, "false")
         /\ UNCHANGED indexState
    ELSE LET meta == file.meta IN
         /\ dim_' = meta.dim
         /\ max_elements_' = meta.max_elements
         /\ M_' = meta.M
         /\ ef_construction_' = meta.ef_construction
         /\ ef_search_' = meta.ef_search
         /\ space_type_' = meta.space_type
         /\ next_internal_id_' = meta.next_internal_id
         /\ UNCHANGED disk
         /\ IF meta.space_type \notin {"l2", "ip"}
            THEN \* initialize_index throws
                 /\ UNCHANGED <<index_, documents_, internal_id_to_doc_id_>>
                 /\ Called("load", path, "false")
            ELSE LET fresh == initialize_index(meta.space_type, meta.max_elements,
                                               meta.ef_search)
                 IN  IF damage = "no_bin"
                     THEN \* loadIndex throws
                          /\ index_' = fresh
                          /\ UNCHANGED <<documents_, internal_id_to_doc_id_>>
                          /\ Called("load", path, "false")
                     ELSE /\ index_' = loadIndex(fresh, file.bin, meta.max_elements)
                          /\ documents_' = DocumentsOf(meta.documents)
                          /\ internal_id_to_doc_id_' \in MappingsOf(meta.documents)
                          /\ Called("load", path, "true")

(***************************************************************************)
(* EpisodicBuffer                                                          *)
(***************************************************************************)
\* Episode::Episode: a timestamp of 0 is replaced by the current time
Episode(q, r, emb, ts, meta, current) ==
    [query |-> q, response |-> r, query_embedding |-> emb,
     timestamp_ms |-> IF ts > 0 THEN ts ELSE current, metadata |-> meta]

InitBuffer ==
    /\ buffer_ = <<>>
    /\ max_capacity_ = Capacity
    /\ now = 1
    /\ inserted = <<>>

\* (mutation: the newest episode is dropped instead of the oldest)
EvictIfOver_Newest(buffer, max_capacity) ==
    IF Len(buffer) > max_capacity THEN SubSeq(buffer, 1, Len(buffer) - 1) ELSE buffer

\* "Evict oldest if full", after the push_back
EvictIfOver(buffer, max_capacity) ==
    IF Len(buffer) > max_capacity THEN Tail(buffer) ELSE buffer

\* EpisodicBuffer::add_episode
AddEpisode(query, response, query_embedding, metadata) ==
    LET episode == Episode(query, response, query_embedding, now, metadata, now)
    IN  /\ buffer_' = EvictIfOver(Append(buffer_, episode), max_capacity_)
        /\ Called("add_episode", query, "void")
        /\ UNCHANGED <<max_capacity_, now>>

\* EpisodicBuffer::clear
ClearBuffer ==
    /\ buffer_' = <<>>
    /\ Called("clear_episodes", "", "void")
    /\ UNCHANGED <<max_capacity_, now>>

\* EpisodicBuffer::size, is_full
buffer_size == Len(buffer_)
is_full == Len(buffer_) >= max_capacity_

\* EpisodicBuffer::get_recent
get_recent(count) ==
    LET start == IF Len(buffer_) > count THEN Len(buffer_) - count + 1 ELSE 1
    IN  SubSeq(buffer_, start, Len(buffer_))

\* utils.hpp cosine_similarity, for vectors of the same length
cosine_similarity(a, b) ==
    IF Len(a) = 0 THEN <<0, 1>>
    ELSE LET norm_a == Sqrt(Dot(a, a))
             norm_b == Sqrt(Dot(b, b))
         IN  IF norm_a = 0 \/ norm_b = 0 THEN <<0, 1>>
             ELSE <<Dot(a, b), norm_a * norm_b>>

\* EpisodicBuffer::compute_temporal_decay, exp(-lambda * delta) with
\* lambda = 1e-6, in millionths: over the few milliseconds of the model
\* exp(-x) is 1 - x to within 1e-11; the unsigned difference of a timestamp
\* in the future is about 2^64 and its decay underflows to 0
LambdaInverse == 1000000
compute_temporal_decay(episode_timestamp_ms, current_timestamp_ms) ==
    IF episode_timestamp_ms > current_timestamp_ms THEN 0
    ELSE LambdaInverse - (current_timestamp_ms - episode_timestamp_ms)

\* "score = similarity * decay", a rational number of millionths
EpisodeScore(query_embedding, episode, current_time) ==
    LET similarity == cosine_similarity(query_embedding, episode.query_embedding)
        decay == compute_temporal_decay(episode.timestamp_ms, current_time)
    IN  <<similarity[1] * decay, similarity[2]>>

\* "score >= similarity_threshold"
PassesThreshold(score, similarity_threshold) ==
    RatLeq(<<similarity_threshold[1] * LambdaInverse, similarity_threshold[2]>>, score)

\* cosine_similarity throws when the lengths differ
RetrieveThrows(query_embedding) ==
    \E i \in 1..Len(buffer_) : Len(buffer_[i].query_embedding) # Len(query_embedding)

Injections(n, S) == {f \in [1..n -> S] : \A i, j \in 1..n : i # j => f[i] # f[j]}

\* EpisodicBuffer::retrieve_similar, the loop over buffer_: the first n
\* episodes that pass the threshold, with their scores
RECURSIVE ScoredEpisodes(_, _, _)
ScoredEpisodes(query_embedding, similarity_threshold, n) ==
    IF n = 0 THEN <<>>
    ELSE LET rest == ScoredEpisodes(query_embedding, similarity_threshold, n - 1)
             score == EpisodeScore(query_embedding, buffer_[n], now)
         IN  IF PassesThreshold(score, similarity_threshold)
             THEN Append(rest, [score |-> score, episode |-> buffer_[n]])
             ELSE rest

\* EpisodicBuffer::retrieve_similar: the results the call can return.
\* std::sort with "a.score > b.score" leaves the order of equal scores open,
\* so every order of the episodes above the threshold that is non-increasing
\* in score is possible; the first top_k of it are returned.
retrieve_similar(query_embedding, top_k, similarity_threshold) ==
    LET scored == ScoredEpisodes(query_embedding, similarity_threshold, Len(buffer_))
        n == Len(scored)
        sorted == {f \in Injections(n, 1..n) :
                      \A i \in 1..(n - 1) : RatLeq(scored[f[i + 1]].score, scored[f[i]].score)}
    IN  {[i \in 1..Min(top_k, n) |-> scored[f[i]].episode] : f \in sorted}

\* std::stoull on the strings an episode file holds
Stoull == [s \in {"0", "1", "2", "3"} |->
              CASE s = "0" -> 0 [] s = "1" -> 1 [] s = "2" -> 2 [] s = "3" -> 3]

\* one record of an episode file is the sequence of its comma-separated
\* fields; the loader reads the first four
LineParses(line) ==
    Len(line) >= 4 /\ line[3] \in DOMAIN Stoull /\ line[4] \in DOMAIN Stoull

ParseLine(line, current) ==
    Episode(line[1], line[2], [j \in 1..Stoull[line[4]] |-> 0], Stoull[line[3]], "{}",
            current)

\* the records read until the first one std::stoull rejects
RECURSIVE ReadLines(_, _)
ReadLines(lines, current) ==
    IF lines = <<>> \/ ~LineParses(Head(lines)) THEN <<>>
    ELSE <<ParseLine(Head(lines), current)>> \o ReadLines(Tail(lines), current)

AllParse(lines) == \A i \in 1..Len(lines) : LineParses(lines[i])

\* EpisodicBuffer::load_from_file; file is the records after the header line,
\* or NoFile when the file cannot be opened
LoadFromFile(file) ==
    /\ UNCHANGED <<max_capacity_, now>>
    /\ IF ~file.present
       THEN /\ Called("load_from_file", "", "runtime_error")
            /\ UNCHANGED buffer_
       ELSE /\ buffer_' = ReadLines(file.lines, now)
            /\ Called("load_from_file", "",
                      IF AllParse(file.lines) THEN "void" ELSE "invalid_argument")

\* the clock advances
Tick ==
    /\ now < MaxClock
    /\ now' = now + 1
    /\ UNCHANGED <<bufferState, last>>

\* episode files: written by a buffer of this dimension (timestamps 1 and 0),
\* and a record cut short
FileLines == {<<"q1", "r1", "1", "2">>, <<"q2", "r1", "0", "2">>, <<"q1", "r1">>}
RECURSIVE SeqsUpTo(_, _)
SeqsUpTo(S, n) ==
    IF n = 0 THEN {<<>>}
    ELSE LET shorter == SeqsUpTo(S, n - 1)
         IN  shorter \cup {Append(t, x) : t \in shorter, x \in S}
EpisodeFiles ==
    {NoFile} \cup {[present |-> TRUE, lines |-> l] : l \in SeqsUpTo(FileLines, MaxFileLines)}

(***************************************************************************)
(* SemanticNetwork                                                         *)
(***************************************************************************)
RatMul(a, b) == <<a[1] * b[1], a[2] * b[2]>>
RatMax(a, b) == IF RatLess(a, b) THEN b ELSE a

\* (mutation: emplace replaces the value of a key that is present)
emplace_Overwrite(map, key, value) ==
    [k \in DOMAIN map \cup {key} |-> IF k = key THEN value ELSE map[k]]

\* std::unordered_map: emplace inserts when the key is absent, operator[]=
\* assigns
emplace(map, key, value) ==
    IF key \in DOMAIN map THEN map
    ELSE [k \in DOMAIN map \cup {key} |-> IF k = key THEN value ELSE map[k]]

\* (mutation: operator[]= keeps the value of a key that is present)
assign_KeepFirst(map, key, value) ==
    IF key \in DOMAIN map THEN map
    ELSE [k \in DOMAIN map \cup {key} |-> IF k = key THEN value ELSE map[k]]

assign(map, key, value) ==
    [k \in DOMAIN map \cup {key} |-> IF k = key THEN value ELSE map[k]]

SemanticNode(concept, embedding) ==
    [concept |-> concept, embedding |-> embedding, edges |-> <<>>,
     activation_level |-> <<0, 1>>]

\* SemanticNetwork::add_node
add_node(nodes, concept, embedding) == emplace(nodes, concept, SemanticNode(concept, embedding))

\* SemanticNetwork::add_edge
add_edge(nodes, source, target, weight) ==
    LET ensured == emplace(emplace(nodes, source, SemanticNode(source, <<>>)),
                           target, SemanticNode(target, <<>>))
    IN  [ensured EXCEPT ![source].edges = assign(ensured[source].edges, target, weight)]

num_nodes(nodes) == Cardinality(DOMAIN nodes)

\* SemanticNetwork::num_edges
RECURSIVE CountEdges(_, _)
CountEdges(nodes, concepts) ==
    IF concepts = {} THEN 0
    ELSE LET concept == CHOOSE c \in concepts : TRUE
         IN  Cardinality(DOMAIN nodes[concept].edges)
             + CountEdges(nodes, concepts \ {concept})

num_edges(nodes) == CountEdges(nodes, DOMAIN nodes)

\* the orders in which the edges of each of the concepts can be iterated:
\* every choice of one order for each
RECURSIVE EdgeOrders(_, _)
EdgeOrders(nodes, concepts) ==
    IF concepts = {} THEN {<<>>}
    ELSE LET concept == CHOOSE c \in concepts : TRUE
             edges == DOMAIN nodes[concept].edges
         IN  {assign(order, concept, neighbors) :
                 order \in EdgeOrders(nodes, concepts \ {concept}),
                 neighbors \in Injections(Cardinality(edges), edges)}

\* spread_activation, "Initialize with source concepts"
RECURSIVE InitFrontier(_, _, _)
InitFrontier(nodes, source_concepts, st) ==
    IF source_concepts = <<>> THEN st
    ELSE LET concept == Head(source_concepts)
             next == IF concept \in DOMAIN nodes
                     THEN [frontier |-> Append(st.frontier, <<concept, 0, <<1, 1>>>>),
                           activations |-> assign(st.activations, concept, <<1, 1>>),
                           visited |-> st.visited \cup {concept},
                           pushed |-> Append(st.pushed, concept)]
                     ELSE st
         IN  InitFrontier(nodes, Tail(source_concepts), next)

\* spread_activation, the body of the loop over node.edges for one neighbor
SpreadTo(p, st, head, neighbor) ==
    LET edge_weight == p.nodes[head[1]].edges[neighbor]
        new_activation == RatMul(RatMul(head[3], p.decay_factor), edge_weight)
        activations ==
            IF neighbor \in DOMAIN st.activations
            THEN assign(st.activations, neighbor,
                        RatMax(st.activations[neighbor], new_activation))
            ELSE assign(st.activations, neighbor, new_activation)
    IN  IF RatLess(new_activation, p.activation_threshold) THEN st
        ELSE IF neighbor \notin st.visited
        THEN [frontier |-> Append(st.frontier, <<neighbor, head[2] + 1, new_activation>>),
              activations |-> activations,
              visited |-> st.visited \cup {neighbor},
              pushed |-> Append(st.pushed, neighbor)]
        ELSE [st EXCEPT !.activations = activations]

\* spread_activation, "Spread activation to neighbors" of one node
RECURSIVE SpreadToNeighbors(_, _, _, _)
SpreadToNeighbors(p, st, head, neighbors) ==
    IF neighbors = <<>> THEN st
    ELSE With(SpreadTo(p, st, head, Head(neighbors)),
              LAMBDA next : SpreadToNeighbors(p, next, head, Tail(neighbors)))

\* spread_activation, "BFS with spreading activation"; st.pushed is history,
\* the concepts in the order they were pushed on the frontier
RECURSIVE Bfs(_, _, _)
Bfs(p, order, st) ==
    IF st.frontier = <<>> THEN st
    ELSE LET head == Head(st.frontier)
             rest == [st EXCEPT !.frontier = Tail(st.frontier)]
         IN  IF head[2] >= p.max_hops \/ head[1] \notin DOMAIN p.nodes
             THEN Bfs(p, order, rest)
             ELSE With(SpreadToNeighbors(p, rest, head, order[head[1]]),
                       LAMBDA next : Bfs(p, order, next))

\* spread_activation, "Update node activation levels" after the reset
ActivatedNodes(nodes, activations) ==
    [c \in DOMAIN nodes |->
        [nodes[c] EXCEPT !.activation_level =
            IF c \in DOMAIN activations THEN activations[c] ELSE <<0, 1>>]]

\* spread_activation, "Sort by activation level (descending)": std::sort
\* leaves the order of equal activations open
SortedActivations(activations) ==
    LET n == Cardinality(DOMAIN activations)
    IN  {[i \in 1..n |-> <<f[i], activations[f[i]]>>] :
            f \in {g \in Injections(n, DOMAIN activations) :
                      \A i \in 1..(n - 1) :
                          RatLeq(activations[g[i + 1]], activations[g[i]])}}

\* the BFS of one spread_activation call, for each order in which the edges
\* of the nodes can be iterated: the state it ends in
BfsRuns(nodes, source_concepts, max_hops, decay_factor, activation_threshold) ==
    LET p == [nodes |-> nodes, max_hops |-> max_hops, decay_factor |-> decay_factor,
              activation_threshold |-> activation_threshold]
        start == InitFrontier(nodes, source_concepts,
                              [frontier |-> <<>>, activations |-> <<>>, visited |-> {},
                               pushed |-> <<>>])
    IN  {Bfs(p, order, start) : order \in EdgeOrders(nodes, DOMAIN nodes)}

\* SemanticNetwork::spread_activation: the outcomes the call can have, each
\* the graph it leaves and the list it returns
spread_activation(nodes, source_concepts, max_hops, decay_factor, activation_threshold) ==
    UNION {{[nodes |-> ActivatedNodes(nodes, run.activations), results |-> r] :
               r \in SortedActivations(run.activations)} :
           run \in BfsRuns(nodes, source_concepts, max_hops, decay_factor,
                           activation_threshold)}

\* SemanticNetwork::decay_activations
decay_activations(nodes, decay_rate) ==
    [c \in DOMAIN nodes |->
        [nodes[c] EXCEPT !.activation_level = RatMul(nodes[c].activation_level, decay_rate)]]

\* SemanticNetwork::reset_activations, and "Reset activations" in
\* spread_activation
reset_activations(nodes) ==
    [c \in DOMAIN nodes |-> [nodes[c] EXCEPT !.activation_level = <<0, 1>>]]

(***************************************************************************)
(* HybridFusion                                                            *)
(***************************************************************************)
RECURSIVE Gcd(_, _)
Gcd(a, b) == IF b = 0 THEN a ELSE Gcd(b, a % b)

\* the same rational in lowest terms
Reduced(a) ==
    LET g == Gcd(IF a[1] < 0 THEN -a[1] ELSE a[1], a[2])
    IN  <<a[1] \div g, a[2] \div g>>

RatAdd(a, b) == Reduced(<<a[1] * b[2] + b[1] * a[2], a[2] * b[2]>>)
RatDiv(a, b) == Reduced(<<a[1] * b[2], a[2] * b[1]>>)

ScoredResult(content, score, source) ==
    [content |-> content, score |-> score, source |-> source, metadata |-> <<>>]

\* struct FusionWeights, default member values
DefaultFusionWeights ==
    [vector_weight |-> <<6, 10>>, episodic_weight |-> <<2, 10>>,
     semantic_weight |-> <<2, 10>>]

\* FusionWeights::normalize
normalize(w) ==
    LET sum == RatAdd(RatAdd(w.vector_weight, w.episodic_weight), w.semantic_weight)
    IN  IF RatLess(<<0, 1>>, sum)
        THEN [vector_weight |-> RatDiv(w.vector_weight, sum),
              episodic_weight |-> RatDiv(w.episodic_weight, sum),
              semantic_weight |-> RatDiv(w.semantic_weight, sum)]
        ELSE w

\* fuse, "score_map[result.content].<source> = result.score" over the first
\* n results of one source: a later result of the same content overwrites
\* an earlier one, a content the source did not return scores 0
RECURSIVE SourceScore(_, _, _)
SourceScore(results, content, n) ==
    IF n = 0 THEN <<0, 1>>
    ELSE IF results[n].content = content THEN results[n].score
    ELSE SourceScore(results, content, n - 1)

ContentsOf(results) == {results[i].content : i \in 1..Len(results)}

\* (mutation: the scores are added without their weights)
compute_fused_score_Unweighted(w, vector_score, episodic_score, semantic_score) ==
    RatAdd(RatAdd(vector_score, episodic_score), semantic_score)

\* HybridFusion::compute_fused_score
compute_fused_score(w, vector_score, episodic_score, semantic_score) ==
    RatAdd(RatAdd(Reduced(RatMul(w.vector_weight, vector_score)),
                  Reduced(RatMul(w.episodic_weight, episodic_score))),
           Reduced(RatMul(w.semantic_weight, semantic_score)))

\* (mutation: fuse ignores top_k)
TakeTopK_All(results, top_k) == results

\* fuse, "Take top-k"
TakeTopK(results, top_k) ==
    IF Len(results) > top_k THEN SubSeq(results, 1, top_k) ELSE results

\* fuse, "Compute fused scores": one fused result for each content of
\* score_map, in one of the orders the map can be iterated in
RECURSIVE FusedResults(_, _, _, _, _)
FusedResults(w, vector_results, episodic_results, semantic_results, contents) ==
    IF contents = {} THEN <<>>
    ELSE LET content == CHOOSE c \in contents : TRUE
             vector_score == SourceScore(vector_results, content, Len(vector_results))
             episodic_score == SourceScore(episodic_results, content,
                                           Len(episodic_results))
             semantic_score == SourceScore(semantic_results, content,
                                           Len(semantic_results))
         IN  <<[content |-> content,
                score |-> compute_fused_score(w, vector_score, episodic_score,
                                              semantic_score),
                source |-> "fused",
                metadata |-> [vector_score |-> vector_score,
                              episodic_score |-> episodic_score,
                              semantic_score |-> semantic_score]]>>
             \o FusedResults(w, vector_results, episodic_results, semantic_results,
                             contents \ {content})

\* HybridFusion::fuse: the lists the call can return.  std::sort with
\* "a.score > b.score" leaves the order of equal scores open, so every order
\* of the fused results that is non-increasing in score is possible; the
\* first top_k of it are returned.
fuse(w, vector_results, episodic_results, semantic_results, top_k) ==
    UNION {LET n == Len(fused)
               sorted == {f \in Injections(n, 1..n) :
                             \A i \in 1..(n - 1) :
                                 RatLeq(fused[f[i + 1]].score, fused[f[i]].score)}
           IN  {TakeTopK([i \in 1..n |-> fused[f[i]]], top_k) : f \in sorted} :
           fused \in {FusedResults(w, vector_results, episodic_results, semantic_results,
                                   ContentsOf(vector_results)
                                   \cup ContentsOf(episodic_results)
                                   \cup ContentsOf(semantic_results))}}

\* HybridFusion::set_weights: the weights the call leaves
set_weights(weights) == normalize(weights)

\* learn_weights, "float learning_rate = 0.1f"
learning_rate == <<1, 10>>

\* learn_weights, "Compute correlation between each source and feedback":
\* the sum over the first n results of the metadata score times the feedback
RECURSIVE Correlation(_, _, _, _)
Correlation(results, feedback_scores, key, n) ==
    IF n = 0 THEN <<0, 1>>
    ELSE RatAdd(Correlation(results, feedback_scores, key, n - 1),
                IF key \in DOMAIN results[n].metadata
                THEN Reduced(RatMul(results[n].metadata[key], feedback_scores[n]))
                ELSE <<0, 1>>)

\* learn_weights, "Update weights (simple proportional adjustment)": the
\* weights before they are normalized
LearnedWeights(w, results, feedback_scores) ==
    LET n == Len(results)
        Adjusted(weight, key) ==
            RatAdd(weight,
                   RatDiv(Reduced(RatMul(learning_rate,
                                         Correlation(results, feedback_scores, key, n))),
                          <<n, 1>>))
    IN  [vector_weight |-> Adjusted(w.vector_weight, "vector_score"),
         episodic_weight |-> Adjusted(w.episodic_weight, "episodic_score"),
         semantic_weight |-> Adjusted(w.semantic_weight, "semantic_score")]

\* HybridFusion::learn_weights: the weights the call leaves
learn_weights(w, results, feedback_scores) ==
    IF Len(results) # Len(feedback_scores) \/ results = <<>> THEN w
    ELSE normalize(LearnedWeights(w, results, feedback_scores))

\* the operations of a HybridFusion object whose weights_ is the variable
FusionFuse(vector_results, episodic_results, semantic_results, top_k) ==
    \E fused_results \in fuse(weights_, vector_results, episodic_results,
                              semantic_results, top_k) :
        /\ last' = [op |-> "fuse",
                    arg |-> <<vector_results, episodic_results, semantic_results, top_k>>,
                    ret |-> fused_results, dim |-> dim_]
        /\ UNCHANGED <<nodes_, weights_, response_>>

FusionSetWeights(weights) ==
    /\ weights_' = set_weights(weights)
    /\ last' = [op |-> "set_weights", arg |-> <<weights>>, ret |-> "void", dim |-> dim_]
    /\ UNCHANGED <<nodes_, response_>>

FusionLearnWeights(results, feedback_scores) ==
    /\ weights_' = learn_weights(weights_, results, feedback_scores)
    /\ last' = [op |-> "learn_weights", arg |-> <<results, feedback_scores>>,
                ret |-> "void", dim |-> dim_]
    /\ UNCHANGED <<nodes_, response_>>

(***************************************************************************)
(* HallucinationDetector                                                   *)
(***************************************************************************)
min_evidence_count_ == 2
min_evidence_confidence_ == <<6, 10>>
hallucination_patterns_ ==
    {<<"i", " ", "t", "h", "i", "n", "k">>,
     <<"p", "r", "o", "b", "a", "b", "l", "y">>,
     <<"m", "a", "y", "b", "e">>,
     <<"p", "o", "s", "s", "i", "b", "l", "y">>,
     <<"i", "'", "m", " ", "n", "o", "t", " ", "s", "u", "r", "e">>,
     <<"i", " ", "b", "e", "l", "i", "e", "v", "e">>,
     <<"i", "t", " ", "s", "e", "e", "m", "s">>}

Evidence(source, confidence, content) ==
    [source |-> source, confidence |-> confidence, content |-> content]

\* HallucinationDetector::contains_hedging
contains_hedging(response) ==
    \E response_lower \in {to_lowercase(response)} :
        \E pattern \in hallucination_patterns_ : Contains(response_lower, pattern)

factual_indicators ==
    {<<"a", "c", "c", "o", "r", "d", "i", "n", "g", " ", "t", "o">>,
     <<"r", "e", "s", "e", "a", "r", "c", "h", " ", "s", "h", "o", "w", "s">>,
     <<"s", "t", "u", "d", "i", "e", "s", " ", "i", "n", "d", "i", "c", "a", "t", "e">>,
     <<"i", "t", " ", "i", "s", " ", "k", "n", "o", "w", "n", " ", "t", "h", "a", "t">>,
     <<"t", "h", "e", " ", "f", "a", "c", "t", " ", "i", "s">>}

\* HallucinationDetector::contains_unsubstantiated_claims
contains_unsubstantiated_claims(response, evidence) ==
    /\ evidence = <<>>
    /\ \E response_lower \in {to_lowercase(response)} :
           \E indicator \in factual_indicators : Contains(response_lower, indicator)

\* the sum of f[1..n]
RECURSIVE RatSum(_, _)
RatSum(f, n) == IF n = 0 THEN <<0, 1>> ELSE RatAdd(RatSum(f, n - 1), f[n])

\* compute_evidence_support, "Count common words"
CommonWords(response_words, content_words) ==
    Cardinality({i \in 1..Len(response_words) :
                    /\ Len(response_words[i]) > 3
                    /\ \E j \in 1..Len(content_words) :
                           response_words[i] = content_words[j]})

\* compute_evidence_support, "Compute overlap ratio" of one piece of evidence
OverlapRatio(response_words, content) ==
    IF response_words # <<>>
    THEN With(tokenize(to_lowercase(content)),
              LAMBDA content_words :
                  Reduced(<<CommonWords(response_words, content_words),
                            Len(response_words)>>))
    ELSE <<0, 1>>

\* compute_evidence_support, the loop over the first n pieces of evidence
RECURSIVE EvidenceTotals(_, _, _)
EvidenceTotals(response_words, evidence, n) ==
    IF n = 0 THEN [total_score |-> <<0, 1>>, total_weight |-> <<0, 1>>,
                   confidence |-> <<0, 1>>]
    ELSE With(EvidenceTotals(response_words, evidence, n - 1),
              LAMBDA before :
                  With(OverlapRatio(response_words, evidence[n].content),
                       LAMBDA weight :
                           [total_score |->
                                RatAdd(before.total_score,
                                       Reduced(RatMul(evidence[n].confidence, weight))),
                            total_weight |-> RatAdd(before.total_weight, weight),
                            confidence |-> RatAdd(before.confidence,
                                                  evidence[n].confidence)]))

\* HallucinationDetector::compute_evidence_support
compute_evidence_support(response, evidence) ==
    IF evidence = <<>> THEN <<0, 1>>
    ELSE With(tokenize(to_lowercase(response)),
              LAMBDA response_words :
                  With(EvidenceTotals(response_words, evidence, Len(evidence)),
                       LAMBDA totals :
                           IF totals.total_weight[1] = 0
                           THEN RatDiv(totals.confidence, <<Len(evidence), 1>>)
                           ELSE RatDiv(totals.total_score, totals.total_weight)))

RatMin(a, b) == IF RatLess(b, a) THEN b ELSE a

\* (mutation: the flags cost nothing)
Penalty_None(flags) == <<0, 10>>

\* validate, "Each flag reduces confidence by 20%"
Penalty(flags) == <<2 * Len(flags), 10>>

\* HallucinationDetector::validate
validate(query, response, evidence, confidence_threshold) ==
    LET strong_evidence ==
            SelectSeq(evidence, LAMBDA ev : RatLeq(min_evidence_confidence_, ev.confidence))
        flags ==
            (IF Len(strong_evidence) < min_evidence_count_
             THEN <<"Insufficient evidence count">> ELSE <<>>)
            \o (IF contains_hedging(response)
                THEN <<"Response contains hedging language">> ELSE <<>>)
            \o (IF contains_unsubstantiated_claims(response, strong_evidence)
                THEN <<"Response contains unsubstantiated claims">> ELSE <<>>)
        evidence_score == compute_evidence_support(response, strong_evidence)
        penalty == Penalty(flags)
        confidence_score ==
            RatMax(<<0, 1>>, RatMin(<<1, 1>>, RatAdd(evidence_score,
                                                     <<-penalty[1], penalty[2]>>)))
    IN  [is_hallucination |-> RatLess(confidence_score, confidence_threshold),
         confidence_score |-> confidence_score,
         flags |-> flags,
         supporting_evidence |-> evidence]

\* HallucinationResult(): the value of a response that was not validated
DefaultHallucinationResult ==
    [is_hallucination |-> FALSE, confidence_score |-> <<1, 1>>, flags |-> <<>>,
     supporting_evidence |-> <<>>]

\* a call of validate on the detector as its constructor leaves it
Validate(query, response, evidence, confidence_threshold) ==
    /\ last' = [op |-> "validate",
                arg |-> <<query, response, evidence, confidence_threshold>>,
                ret |-> validate(query, response, evidence, confidence_threshold),
                dim |-> dim_]
    /\ UNCHANGED handlerVars

(***************************************************************************)
(* ExplanationEngine and CognitiveHandler                                  *)
(***************************************************************************)
ReasoningStep(step_type, description, confidence) ==
    [step_type |-> step_type, description |-> description, confidence |-> confidence]

\* the mean of the first n scores of results
AverageScore(results, n) ==
    RatDiv(RatSum([i \in 1..n |-> results[i].score], n), <<n, 1>>)

create_vector_search_step(num_results, avg_similarity) ==
    ReasoningStep("vector_search", "Vector similarity search", avg_similarity)

create_episodic_step(num_episodes, avg_relevance) ==
    ReasoningStep("episodic_retrieval", "Retrieved conversation context", avg_relevance)

create_semantic_step(num_concepts, activation_level) ==
    ReasoningStep("semantic_activation", "Semantic concept spreading", activation_level)

create_fusion_step(w, final_score) ==
    ReasoningStep("hybrid_fusion", "Combined evidence from multiple sources", final_score)

create_hallucination_check_step(passed, confidence, flags) ==
    ReasoningStep("hallucination_check",
                  IF passed THEN "Response validated" ELSE "Response flagged for review",
                  IF passed THEN confidence
                  ELSE RatAdd(<<1, 1>>, <<-confidence[1], confidence[2]>>))

\* struct QueryConfig with its default member values
DefaultQueryConfig ==
    [use_episodic |-> TRUE, use_semantic |-> TRUE, check_hallucination |-> TRUE,
     generate_explanation |-> TRUE, top_k_results |-> 10,
     hallucination_threshold |-> <<5, 10>>]

\* CognitiveHandler::CognitiveHandler: fusion_(fusion_weights) normalises
InitHandler ==
    /\ nodes_ = <<>>
    /\ weights_ = normalize(DefaultFusionWeights)
    /\ response_ = [kind |-> "none"]

\* CognitiveHandler::vector_search, the conversion of the index's results
RECURSIVE VectorResults(_)
VectorResults(hnsw_results) ==
    IF hnsw_results = <<>> THEN <<>>
    ELSE <<ScoredResult(Head(hnsw_results).content, Head(hnsw_results).similarity,
                        "vector")>> \o VectorResults(Tail(hnsw_results))

vector_search(query_embedding, top_k) == VectorResults(search(query_embedding, top_k))

PreviousContextQ == <<"P", "r", "e", "v", "i", "o", "u", "s", " ", "c", "o", "n", "t", "e", "x", "t", ":", " ", "Q", ":", " ">>
PreviousContextA == <<" ", "A", ":", " ">>

\* CognitiveHandler::episodes_to_results
RECURSIVE episodes_to_results(_)
episodes_to_results(episodes) ==
    IF episodes = <<>> THEN <<>>
    ELSE LET episode == Head(episodes)
             content == PreviousContextQ \o episode.query \o PreviousContextA
                        \o episode.response
         IN  <<ScoredResult(content, <<8, 10>>, "episodic")>>
             \o episodes_to_results(Tail(episodes))

stopwords ==
    {<<"t", "h", "e">>, <<"i", "s">>, <<"a", "t">>, <<"w", "h", "i", "c", "h">>,
     <<"o", "n">>, <<"a">>, <<"a", "n">>, <<"a", "n", "d">>, <<"o", "r">>,
     <<"b", "u", "t">>, <<"i", "n">>, <<"w", "i", "t", "h">>, <<"t", "o">>,
     <<"f", "o", "r">>, <<"o", "f">>, <<"a", "s">>, <<"b", "y">>,
     <<"f", "r", "o", "m">>, <<"h", "o", "w">>, <<"w", "h", "a", "t">>,
     <<"w", "h", "e", "r", "e">>, <<"w", "h", "e", "n">>, <<"w", "h", "y">>,
     <<"w", "h", "o">>}

\* CognitiveHandler::extract_concepts
extract_concepts(query) ==
    SelectSeq(tokenize(to_lowercase(query)),
              LAMBDA token : Len(token) > 3 /\ token \notin stopwords)

\* process_query, "Convert to scored results"
RECURSIVE SemanticResults(_)
SemanticResults(activated) ==
    IF activated = <<>> THEN <<>>
    ELSE <<ScoredResult(Head(activated)[1], Head(activated)[2], "semantic")>>
         \o SemanticResults(Tail(activated))

\* process_query, "Collect evidence from all sources"
RECURSIVE EvidenceOf(_, _)
EvidenceOf(source, results) ==
    IF results = <<>> THEN <<>>
    ELSE <<Evidence(source, Head(results).score, Head(results).content)>>
         \o EvidenceOf(source, Tail(results))

NoResultsFound == <<"N", "o", " ", "r", "e", "s", "u", "l", "t", "s", " ", "f", "o", "u", "n", "d", ".">>

\* (mutation: the step is put in front of the trace)
push_back_Front(reasoning_trace, step) == <<step>> \o reasoning_trace

\* reasoning_trace.push_back(step)
push_back(reasoning_trace, step) == Append(reasoning_trace, step)

\* "if (!results.empty()) reasoning_trace.push_back(step)"
PushIfAny(reasoning_trace, results, step) ==
    IF results # <<>> THEN push_back(reasoning_trace, step) ELSE reasoning_trace

\* (mutation: episodic retrieval ignores the configuration)
EpisodicEnabled_Always(config, episodes) == episodes > 0

\* "config.use_episodic && episodic_buffer_.size() > 0"
EpisodicEnabled(config, episodes) == config.use_episodic /\ episodes > 0

\* "config.use_semantic && semantic_network_.num_nodes() > 0"
SemanticEnabled(config, concepts) == config.use_semantic /\ concepts > 0

\* "config.check_hallucination && !response.response.empty()"
ValidationEnabled(config, response) == config.check_hallucination /\ response # EmptyText

\* (mutation: the response is taken from the last fused result)
ResponseOf_Last(fused_results) ==
    IF fused_results # <<>>
    THEN [response |-> fused_results[Len(fused_results)].content,
          overall_confidence |-> fused_results[Len(fused_results)].score]
    ELSE [response |-> NoResultsFound, overall_confidence |-> <<0, 1>>]

\* "Generate response from top result"
ResponseOf(fused_results) ==
    IF fused_results # <<>>
    THEN [response |-> fused_results[1].content,
          overall_confidence |-> fused_results[1].score]
    ELSE [response |-> NoResultsFound, overall_confidence |-> <<0, 1>>]

\* (mutation: the exception is caught and an empty response is returned)
Throw_Caught(what, step, config) ==
    /\ response_' = [kind |-> "returned", config |-> config, response |-> NoResultsFound,
                     results |-> <<>>, overall_confidence |-> <<0, 1>>]
    /\ Called("process_query", "", what)
    /\ UNCHANGED <<nodes_, weights_>>

\* an exception thrown in a step leaves process_query, which has no handler
Throw(what, step, config) ==
    /\ response_' = [kind |-> "raised", what |-> what, step |-> step, config |-> config]
    /\ Called("process_query", "", what)
    /\ UNCHANGED <<nodes_, weights_>>

\* process_query from "Generate response from top result" on, with the
\* results of the three sources, the fused results and the trace so far
Respond(query, config, vector_results, episodic_results, semantic_results, fused, trace) ==
    LET response == ResponseOf(fused).response
        overall_confidence == ResponseOf(fused).overall_confidence
        fusion_trace ==
            PushIfAny(trace, fused,
                      create_fusion_step(weights_,
                                         IF fused # <<>> THEN fused[1].score
                                         ELSE <<0, 1>>))
        validated == ValidationEnabled(config, response)
        evidence == EvidenceOf("vector_search", vector_results)
                    \o EvidenceOf("episodic_buffer", episodic_results)
                    \o EvidenceOf("semantic_network", semantic_results)
        Finish(hallucination_check) ==
            With(IF validated
                 THEN push_back(fusion_trace,
                                create_hallucination_check_step(
                                    ~hallucination_check.is_hallucination,
                                    hallucination_check.confidence_score,
                                    hallucination_check.flags))
                 ELSE fusion_trace,
                 LAMBDA reasoning_trace :
                     [kind |-> "returned", query |-> query, config |-> config,
                      response |-> response, results |-> fused,
                      overall_confidence |-> overall_confidence,
                      hallucination_check |-> hallucination_check,
                      explanation |-> IF config.generate_explanation THEN reasoning_trace
                                      ELSE <<>>,
                      \* the locals of the call, which the response does not carry
                      reasoning_trace |-> reasoning_trace,
                      vector_results |-> vector_results,
                      episodic_results |-> episodic_results,
                      semantic_results |-> semantic_results])
    IN  With(IF validated
             THEN validate(query, response, evidence, config.hallucination_threshold)
             ELSE DefaultHallucinationResult,
             Finish)

\* process_query, steps 1 to 3: the trace after the three sources were asked
SourceTrace(vector_results, episodic_results, semantic_results) ==
    LET vector_trace ==
            PushIfAny(<<>>, vector_results,
                      create_vector_search_step(
                          Len(vector_results),
                          AverageScore(vector_results, Min(3, Len(vector_results)))))
        episodic_trace ==
            PushIfAny(vector_trace, episodic_results,
                      create_episodic_step(
                          Len(episodic_results),
                          AverageScore(episodic_results, Min(2, Len(episodic_results)))))
    IN  PushIfAny(episodic_trace, semantic_results,
                  create_semantic_step(
                      Len(semantic_results),
                      IF semantic_results = <<>> THEN <<0, 1>>
                      ELSE semantic_results[1].score))

\* CognitiveHandler::process_query
ProcessQuery(query, query_embedding, config) ==
    LET episodic == EpisodicEnabled(config, buffer_size)
        semantic == SemanticEnabled(config, num_nodes(nodes_))
    IN  IF SearchThrows(IndexRec, query_embedding)
        THEN Throw("invalid_argument", "vector_search", config)
        ELSE IF episodic /\ RetrieveThrows(query_embedding)
        THEN Throw("invalid_argument", "episodic_retrieval", config)
        ELSE \E vector_results \in {vector_search(query_embedding, config.top_k_results)},
                episodes \in IF episodic
                             THEN retrieve_similar(query_embedding, 5, <<6, 10>>)
                             ELSE {<<>>},
                activated \in IF semantic
                              THEN spread_activation(nodes_, extract_concepts(query), 3,
                                                     <<7, 10>>, <<1, 10>>)
                              ELSE {[nodes |-> nodes_, results |-> <<>>]} :
                 \E episodic_results \in {episodes_to_results(episodes)},
                    semantic_results \in {SemanticResults(activated.results)} :
                     \E fused_results \in fuse(weights_, vector_results, episodic_results,
                                               semantic_results, config.top_k_results),
                        trace \in {SourceTrace(vector_results, episodic_results,
                                               semantic_results)} :
                         /\ response_' = Respond(query, config, vector_results,
                                                 episodic_results, semantic_results,
                                                 fused_results, trace)
                         /\ nodes_' = activated.nodes
                         /\ Called("process_query", "", "returned")
                         /\ UNCHANGED weights_

\* SemanticNetwork::add_node, add_edge and spread_activation as operations
\* on the graph
GraphAddNode(concept, embedding) ==
    /\ nodes_' = add_node(nodes_, concept, embedding)
    /\ Called("add_node", <<concept, embedding>>, "void")
    /\ UNCHANGED <<weights_, response_>>

GraphAddEdge(source, target, weight) ==
    /\ nodes_' = add_edge(nodes_, source, target, weight)
    /\ Called("add_edge", <<source, target, weight>>, "void")
    /\ UNCHANGED <<weights_, response_>>

SpreadActivation(source_concepts, max_hops, decay_factor, activation_threshold) ==
    \E outcome \in spread_activation(nodes_, source_concepts, max_hops, decay_factor,
                                      activation_threshold) :
        /\ nodes_' = outcome.nodes
        /\ Called("spread_activation",
                  <<source_concepts, max_hops, decay_factor, activation_threshold>>,
                  outcome.results)
        /\ UNCHANGED <<weights_, response_>>

DecayActivations(decay_rate) ==
    /\ nodes_' = decay_activations(nodes_, decay_rate)
    /\ Called("decay_activations", decay_rate, "void")
    /\ UNCHANGED <<weights_, response_>>

ResetActivations ==
    /\ nodes_' = reset_activations(nodes_)
    /\ Called("reset_activations", "", "void")
    /\ UNCHANGED <<weights_, response_>>

\* CognitiveHandler::populate_semantic_network
RECURSIVE AddNodes(_, _)
AddNodes(nodes, concepts) ==
    IF concepts = <<>> THEN nodes
    ELSE AddNodes(add_node(nodes, Head(concepts)[1], Head(concepts)[2]), Tail(concepts))

RECURSIVE AddEdges(_, _)
AddEdges(nodes, relations) ==
    IF relations = <<>> THEN nodes
    ELSE AddEdges(add_edge(nodes, Head(relations)[1], Head(relations)[2],
                           Head(relations)[3]),
                  Tail(relations))

PopulateSemanticNetwork(concepts, relations) ==
    /\ nodes_' = AddEdges(AddNodes(nodes_, concepts), relations)
    /\ response_' = [kind |-> "none"]
    /\ Called("populate_semantic_network", "", "void")
    /\ UNCHANGED weights_

\* HNSWIndex::add_document on an index value: the index it leaves and how the
\* call ends
add_document(ix, doc_id, embedding, content, metadata) ==
    IF AlreadyPresent(ix.documents, doc_id) THEN [ix |-> ix, ret |-> "false"]
    ELSE IF ~DimensionMatches(ix, embedding) THEN [ix |-> ix, ret |-> "invalid_argument"]
    ELSE IF IndexIsFull(ix.next_internal_id, ix.max_elements)
    THEN [ix |-> ix, ret |-> "runtime_error"]
    ELSE LET normalized_embedding == PrepareVector(ix.space_type, embedding)
             internal_id == ix.next_internal_id
             advanced == [ix EXCEPT !.next_internal_id = NextInternalId(internal_id)]
         IN  IF HnswCanAdd(ix.index, internal_id)
             THEN [ix |-> [advanced EXCEPT
                              !.index = addPoint(ix.index, normalized_embedding,
                                                 internal_id),
                              !.documents = StoreDocument(ix.documents, doc_id, content,
                                                          metadata, internal_id),
                              !.imap = StoreMapping(ix.imap, internal_id, doc_id)],
                   ret |-> "true"]
             ELSE [ix |-> advanced, ret |-> "runtime_error"]

\* batch_index_documents, the loop: the index after the documents and what
\* each add_document call gave, up to the first one that threw
RECURSIVE BatchLoop(_, _, _)
BatchLoop(ix, documents, rets) ==
    IF documents = <<>> THEN [ix |-> ix, rets |-> rets, ret |-> "void"]
    ELSE LET doc == Head(documents)
             added == add_document(ix, doc[1], doc[2], doc[3], "null")
         IN  IF added.ret \in {"true", "false"}
             THEN BatchLoop(added.ix, Tail(documents), Append(rets, added.ret))
             ELSE [ix |-> added.ix, rets |-> Append(rets, added.ret), ret |-> added.ret]

\* CognitiveHandler::batch_index_documents
BatchIndexDocuments(documents) ==
    LET done == BatchLoop(IndexRec, documents, <<>>)
    IN  /\ index_' = done.ix.index
        /\ documents_' = done.ix.documents
        /\ internal_id_to_doc_id_' = done.ix.imap
        /\ next_internal_id_' = done.ix.next_internal_id
        /\ UNCHANGED <<dim_, max_elements_, M_, ef_construction_, ef_search_,
                       space_type_, disk>>
        /\ response_' = [kind |-> "batch", ret |-> done.ret, rets |-> done.rets,
                         documents |-> documents]
        /\ Called("batch_index_documents", "", done.ret)
        /\ UNCHANGED <<nodes_, weights_>>

(***************************************************************************)
(* Calling threads.  A call is issued ("waiting"), constructs its           *)
(* std::lock_guard and runs the first part of the body ("inside"), then    *)
(* runs the rest of the body, releases the lock and returns ("idle").      *)
(***************************************************************************)
Threads == {"t1", "t2"}

Idle == [pc |-> "idle"]

InitThreads ==
    /\ threads = [of |-> [t \in Threads |-> Idle], log |-> <<>>]
    /\ mutex_ = "free"

\* (mutation: the lock is not waited for)
CanLock_Always(mutex, t) == TRUE

\* std::lock_guard<std::mutex> lock(mutex_): the thread gets past it when no
\* thread holds the mutex
CanLock(mutex, t) == mutex = "free"

Waiting(t) == threads.of[t].pc = "waiting"
Inside(t) == threads.of[t].pc = "inside"
CallsStarted == Len(threads.log) + Cardinality({t \in Threads : Waiting(t)})

\* a thread calls op(arg)
ThreadCall(t, op, arg) ==
    /\ threads.of[t].pc = "idle"
    /\ threads' = [threads EXCEPT !.of[t] = [pc |-> "waiting", op |-> op, arg |-> arg]]
    /\ UNCHANGED <<mutex_, last>>

\* the thread is past the lock_guard and its call is the next in lock order
ThreadEnters(t, ret, seen) ==
    /\ mutex_' = t
    /\ threads' = [of |-> [threads.of EXCEPT ![t] =
                              [pc |-> "inside", op |-> @.op, arg |-> @.arg, ret |-> ret,
                               seen |-> seen]],
                   log |-> Append(threads.log,
                                  [thread |-> t, op |-> threads.of[t].op,
                                   arg |-> threads.of[t].arg, ret |-> ret,
                                   with |-> {u \in Threads \ {t} : Waiting(u)}])]
    /\ UNCHANGED last

\* the lock_guard is destroyed and the call returns
ThreadLeaves(t) ==
    /\ mutex_' = "free"
    /\ threads' = [threads EXCEPT !.of[t] = Idle]
    /\ last' = [op |-> threads.of[t].op, arg |-> threads.of[t].arg,
                ret |-> threads.of[t].ret, dim |-> dim_]

\* HNSWIndex::add_document, from the lock_guard to "documents_[doc_id] = ..."
AddDocumentEnter(t, embedding, content, metadata) ==
    /\ Waiting(t) /\ threads.of[t].op = "add_document"
    /\ CanLock(mutex_, t)
    /\ \E doc_id \in {threads.of[t].arg} :
           IF AlreadyPresent(documents_, doc_id)
           THEN ThreadEnters(t, "false", "") /\ UNCHANGED indexState
           ELSE IF ~DimensionMatches(IndexRec, embedding)
           THEN ThreadEnters(t, "invalid_argument", "") /\ UNCHANGED indexState
           ELSE IF IndexIsFull(next_internal_id_, max_elements_)
           THEN ThreadEnters(t, "runtime_error", "") /\ UNCHANGED indexState
           ELSE /\ next_internal_id_' = NextInternalId(next_internal_id_)
                /\ UNCHANGED <<dim_, max_elements_, M_, ef_construction_, ef_search_,
                               space_type_, disk, internal_id_to_doc_id_>>
                /\ IF HnswCanAdd(index_, next_internal_id_)
                   THEN /\ index_' = addPoint(index_, PrepareVector(space_type_, embedding),
                                              next_internal_id_)
                        /\ documents_' = StoreDocument(documents_, doc_id, content,
                                                       metadata, next_internal_id_)
                        /\ ThreadEnters(t, "true", next_internal_id_)
                   ELSE /\ UNCHANGED <<index_, documents_>>
                        /\ ThreadEnters(t, "runtime_error", "")

\* HNSWIndex::add_document, "internal_id_to_doc_id_[internal_id] = doc_id"
\* and the return
AddDocumentLeave(t) ==
    /\ Inside(t) /\ threads.of[t].op = "add_document"
    /\ internal_id_to_doc_id_' =
           IF threads.of[t].ret = "true"
           THEN StoreMapping(internal_id_to_doc_id_, threads.of[t].seen, threads.of[t].arg)
           ELSE internal_id_to_doc_id_
    /\ ThreadLeaves(t)
    /\ UNCHANGED <<dim_, max_elements_, M_, ef_construction_, ef_search_, space_type_,
                   disk, index_, documents_, next_internal_id_>>

\* HNSWIndex::remove_document, from the lock_guard to
\* "internal_id_to_doc_id_.erase(internal_id)"
RemoveDocumentEnter(t) ==
    /\ Waiting(t) /\ threads.of[t].op = "remove_document"
    /\ CanLock(mutex_, t)
    /\ \E doc_id \in {threads.of[t].arg} :
           IF doc_id \notin DOMAIN documents_
           THEN ThreadEnters(t, "false", "") /\ UNCHANGED indexState
           ELSE IF ~HnswCanDelete(index_, documents_[doc_id].internal_id)
           THEN ThreadEnters(t, "runtime_error", "") /\ UNCHANGED indexState
           ELSE /\ index_' = markDelete(index_, documents_[doc_id].internal_id)
                /\ internal_id_to_doc_id_' =
                       Erase(internal_id_to_doc_id_, documents_[doc_id].internal_id)
                /\ ThreadEnters(t, "true", documents_[doc_id].internal_id)
                /\ UNCHANGED <<dim_, max_elements_, M_, ef_construction_, ef_search_,
                               space_type_, disk, documents_, next_internal_id_>>

\* HNSWIndex::remove_document, "documents_.erase(it)" and the return
RemoveDocumentLeave(t) ==
    /\ Inside(t) /\ threads.of[t].op = "remove_document"
    /\ documents_' = IF threads.of[t].ret = "true"
                     THEN Erase(documents_, threads.of[t].arg) ELSE documents_
    /\ ThreadLeaves(t)
    /\ UNCHANGED <<dim_, max_elements_, M_, ef_construction_, ef_search_, space_type_,
                   disk, index_, internal_id_to_doc_id_, next_internal_id_>>

\* HNSWIndex::search, from the lock_guard to the end of the conversion loop;
\* seen is what the call read of the two metadata maps
SearchEnter(t, query, top_k) ==
    /\ Waiting(t) /\ threads.of[t].op = "search"
    /\ CanLock(mutex_, t)
    /\ ThreadEnters(t, IF SearchThrows(IndexRec, query) THEN "invalid_argument"
                       ELSE DocIdsOf(SearchOn(IndexRec, query, top_k)),
                    [documents |-> documents_, imap |-> internal_id_to_doc_id_])
    /\ UNCHANGED indexState

\* HNSWIndex::search, the return
SearchLeave(t) ==
    /\ Inside(t) /\ threads.of[t].op = "search"
    /\ ThreadLeaves(t)
    /\ UNCHANGED indexState

\* HybridFusion::set_weights, "weights_ = weights;".  HybridFusion has no
\* mutex: the statement runs whatever the other threads are doing.
SetWeightsAssign(t, weights) ==
    /\ threads.of[t].pc = "idle"
    /\ weights_' = weights
    /\ threads' = [threads EXCEPT !.of[t] =
                      [pc |-> "inside", op |-> "set_weights", arg |-> weights]]
    /\ UNCHANGED <<nodes_, response_, mutex_, last>>

\* HybridFusion::set_weights, "weights_.normalize();" and the return
SetWeightsNormalize(t) ==
    /\ Inside(t) /\ threads.of[t].op = "set_weights"
    /\ weights_' = normalize(weights_)
    /\ threads' = [threads EXCEPT !.of[t] = Idle]
    /\ last' = [op |-> "set_weights", arg |-> <<threads.of[t].arg>>, ret |-> "void",
                dim |-> dim_]
    /\ UNCHANGED <<nodes_, response_, mutex_>>

\* HybridFusion::get_weights
GetWeights(t) ==
    /\ threads.of[t].pc = "idle"
    /\ last' = [op |-> "get_weights", arg |-> <<>>, ret |-> weights_, dim |-> dim_]
    /\ UNCHANGED <<nodes_, weights_, response_, threads, mutex_>>

\* HybridFusion::fuse called by a thread
ThreadFuse(t, vector_results, episodic_results, semantic_results, top_k) ==
    /\ threads.of[t].pc = "idle"
    /\ FusionFuse(vector_results, episodic_results, semantic_results, top_k)
    /\ UNCHANGED <<threads, mutex_>>

(***************************************************************************)
(* CircuitBreaker                                                          *)
(***************************************************************************)
\* the configuration the breaker is constructed with:
\* CircuitBreakerConfig(failure_thresh, success_thresh, timeout, max_concurrent)
config_ ==
    [failure_threshold |-> 2, success_threshold |-> 2, timeout_ms |-> 1,
     max_concurrent_calls |-> 1]

\* CircuitBreaker::CircuitBreaker; a default time_point is the epoch
InitBreaker ==
    breaker_ = [state_ |-> "CLOSED",
                stats_ |-> [state |-> "CLOSED", total_calls |-> 0, successful_calls |-> 0,
                            failed_calls |-> 0, rejected_calls |-> 0,
                            consecutive_failures |-> 0, consecutive_successes |-> 0,
                            last_failure_time |-> 0, last_state_change_time |-> now,
                            current_concurrent_calls |-> 0],
                concurrent_calls_ |-> 0]

\* CircuitBreaker::transition_to
transition_to(b, new_state, time) ==
    IF b.state_ = new_state THEN b
    ELSE [b EXCEPT !.state_ = new_state,
                   !.stats_.state = new_state,
                   !.stats_.last_state_change_time = time,
                   !.stats_.consecutive_failures =
                       IF new_state = "CLOSED" THEN 0 ELSE @,
                   !.stats_.consecutive_successes =
                       IF new_state \in {"CLOSED", "HALF_OPEN"} THEN 0 ELSE @]

\* (mutation: the timeout is not waited for)
should_attempt_reset_Always(b, time) == TRUE

\* CircuitBreaker::should_attempt_reset
should_attempt_reset(b, time) == time - b.stats_.last_failure_time >= config_.timeout_ms

\* CircuitBreaker::allow_request: whether the call is let through, and the
\* breaker the check leaves
allow_request(b, time) ==
    IF b.state_ = "CLOSED"
    THEN [allowed |-> ~(b.concurrent_calls_ >= config_.max_concurrent_calls), breaker |-> b]
    ELSE IF b.state_ = "OPEN"
    THEN IF should_attempt_reset(b, time)
         THEN [allowed |-> TRUE, breaker |-> transition_to(b, "HALF_OPEN", time)]
         ELSE [allowed |-> FALSE, breaker |-> b]
    ELSE [allowed |-> b.concurrent_calls_ = 0, breaker |-> b]

\* CircuitBreaker::on_success
on_success(b, time) ==
    LET counted == [b EXCEPT !.stats_.total_calls = @ + 1,
                             !.stats_.successful_calls = @ + 1,
                             !.stats_.consecutive_successes = @ + 1,
                             !.stats_.consecutive_failures = 0]
    IN  IF counted.state_ = "HALF_OPEN"
           /\ counted.stats_.consecutive_successes >= config_.success_threshold
        THEN transition_to(counted, "CLOSED", time)
        ELSE counted

\* (mutation: failures never open the circuit)
ThresholdReached_Never(count, threshold) == FALSE

\* on_failure, "stats_.consecutive_failures >= config_.failure_threshold"
ThresholdReached(count, threshold) == count >= threshold

\* CircuitBreaker::on_failure
on_failure(b, time) ==
    LET counted == [b EXCEPT !.stats_.total_calls = @ + 1,
                             !.stats_.failed_calls = @ + 1,
                             !.stats_.consecutive_failures = @ + 1,
                             !.stats_.consecutive_successes = 0,
                             !.stats_.last_failure_time = time]
    IN  IF counted.state_ = "HALF_OPEN" THEN transition_to(counted, "OPEN", time)
        ELSE IF counted.state_ = "CLOSED"
                /\ ThresholdReached(counted.stats_.consecutive_failures,
                                    config_.failure_threshold)
        THEN transition_to(counted, "OPEN", time)
        ELSE counted

\* CircuitBreaker::trip
trip(b, time) == [transition_to(b, "OPEN", time) EXCEPT !.stats_.last_failure_time = time]

\* CircuitBreaker::reset
reset(b, time) ==
    [transition_to(b, "CLOSED", time) EXCEPT !.stats_.consecutive_failures = 0,
                                             !.stats_.consecutive_successes = 0]

\* the calls of execute() that have begun
ExecuteCalls ==
    breaker_.stats_.total_calls + breaker_.stats_.rejected_calls
    + Cardinality({t \in Threads : threads.of[t].pc \in {"allowed", "running"}})

\* CircuitBreaker::execute, "if (!allow_request())" with the rejection
ExecuteAllow(t) ==
    /\ threads.of[t].pc = "idle"
    /\ \E check \in {allow_request(breaker_, now)} :
           IF check.allowed
           THEN /\ breaker_' = check.breaker
                /\ threads' = [threads EXCEPT !.of[t] = [pc |-> "allowed"]]
                /\ UNCHANGED last
           ELSE /\ breaker_' = [check.breaker EXCEPT !.stats_.rejected_calls = @ + 1]
                /\ last' = [op |-> "execute", arg |-> t,
                            ret |-> "CircuitBreakerOpenException", dim |-> dim_]
                /\ UNCHANGED threads
    /\ UNCHANGED mutex_

\* CircuitBreaker::execute, "concurrent_calls_++" and the call of func
ExecuteBegin(t) ==
    /\ threads.of[t].pc = "allowed"
    /\ breaker_' = [breaker_ EXCEPT !.concurrent_calls_ = @ + 1,
                                    !.stats_.current_concurrent_calls =
                                        breaker_.concurrent_calls_ + 1]
    /\ threads' = [threads EXCEPT !.of[t] = [pc |-> "running"]]
    /\ UNCHANGED <<mutex_, last>>

\* CircuitBreaker::execute: func returns or throws, and on_success() or
\* on_failure() runs under mutex_
ExecuteOutcome(t, outcome) ==
    /\ threads.of[t].pc = "running"
    /\ breaker_' = IF outcome = "success" THEN on_success(breaker_, now)
                   ELSE on_failure(breaker_, now)
    /\ threads' = [threads EXCEPT !.of[t] = [pc |-> outcome]]
    /\ UNCHANGED <<mutex_, last>>

\* CircuitBreaker::execute, "concurrent_calls_--" and the return or rethrow
ExecuteEnd(t) ==
    /\ threads.of[t].pc \in {"success", "failure"}
    /\ breaker_' = [breaker_ EXCEPT !.concurrent_calls_ = @ - 1]
    /\ threads' = [threads EXCEPT !.of[t] = Idle]
    /\ last' = [op |-> "execute", arg |-> t, ret |-> threads.of[t].pc, dim |-> dim_]
    /\ UNCHANGED mutex_

Trip ==
    /\ breaker_' = trip(breaker_, now)
    /\ last' = [op |-> "trip", arg |-> now, ret |-> "void", dim |-> dim_]
    /\ UNCHANGED <<threads, mutex_>>

Reset ==
    /\ breaker_' = reset(breaker_, now)
    /\ last' = [op |-> "reset", arg |-> now, ret |-> "void", dim |-> dim_]
    /\ UNCHANGED <<threads, mutex_>>

\* std::chrono::system_clock advances
ClockTick ==
    /\ now' = now + 1
    /\ UNCHANGED <<bufferState, inserted, threadVars, last>>

(***************************************************************************)
(* History variables.  They record what the calls did and are written by   *)
(* no operation of the program.                                            *)
(***************************************************************************)
Did(op, ret) == last'.op = op /\ last'.ret = ret

\* ids handed out, successful removes and removed doc_ids, counted since
\* construction or the last clear(); usedIds is never reset
TrackIds(doc_id) ==
    /\ usedIds' = IF Did("add_document", "true")
                  THEN usedIds \cup {next_internal_id_} ELSE usedIds
    /\ epochIds' = IF Did("add_document", "true") THEN Append(epochIds, next_internal_id_)
                   ELSE IF last'.op = "clear" THEN <<>>
                   ELSE epochIds
    /\ removeCount' = IF Did("remove_document", "true") THEN removeCount + 1
                      ELSE IF last'.op = "clear" THEN 0
                      ELSE removeCount
    /\ removedDocs' = IF Did("remove_document", "true") THEN removedDocs \cup {doc_id}
                      ELSE IF Did("add_document", "true") THEN removedDocs \ {doc_id}
                      ELSE removedDocs
    /\ addedDocIds' = IF Did("add_document", "true") THEN addedDocIds \cup {doc_id}
                      ELSE IF last'.op = "clear" THEN {}
                      ELSE addedDocIds
    /\ removedDocIds' = IF Did("remove_document", "true") THEN removedDocIds \cup {doc_id}
                        ELSE IF last'.op = "clear" THEN {}
                        ELSE removedDocIds
    /\ cleared' = IF last'.op # "clear" \/ cleared = "tombstoned" THEN cleared
                  ELSE IF removeCount >= 1 THEN "tombstoned"
                  ELSE IF Len(epochIds) >= 1 THEN "populated"
                  ELSE cleared

\* the embedding each live document was added with
TrackEmbedding(doc_id, embedding) ==
    embeddingOf' = IF Did("add_document", "true")
                   THEN [d \in DOMAIN embeddingOf \cup {doc_id} |->
                            IF d = doc_id THEN embedding ELSE embeddingOf[d]]
                   ELSE IF Did("remove_document", "true")
                   THEN [d \in DOMAIN embeddingOf \ {doc_id} |-> embeddingOf[d]]
                   ELSE IF last'.op = "clear" THEN <<>>
                   ELSE embeddingOf

\* the index as it was when save() last wrote the snapshot
TrackSaved ==
    saved' = IF last'.op = "save" THEN [present |-> TRUE, ix |-> IndexRec] ELSE saved

\* the episodes add_episode appended since construction or the last clear()
TrackInserted ==
    inserted' = IF last'.op = "add_episode" THEN Append(inserted, buffer_'[Len(buffer_')])
                ELSE IF last'.op = "clear_episodes" THEN <<>>
                ELSE inserted

(***************************************************************************)
(* Specifications.                                                         *)
(***************************************************************************)
Init ==
    /\ InitIndex
    /\ InitBuffer
    /\ InitHandler
    /\ InitThreads
    /\ InitBreaker
    /\ last = [op |-> "construct", arg |-> "", ret |-> "void", dim |-> Dim]

idHistory == <<usedIds, epochIds, removeCount, removedDocs, addedDocIds, removedDocIds,
               cleared, embeddingOf>>

\* the index under add, remove and clear with every input
NextCore ==
    \/ \E d \in DocIds, e \in Embeddings, c \in Contents, m \in Metadatas :
           /\ AddDocument(d, e, c, m) /\ TrackIds(d) /\ TrackEmbedding(d, e)
           /\ UNCHANGED <<threadVars, saved, bufferVars, handlerVars>>
    \/ \E d \in DocIds :
           /\ RemoveDocument(d) /\ TrackIds(d) /\ TrackEmbedding(d, <<>>)
           /\ UNCHANGED <<threadVars, saved, bufferVars, handlerVars>>
    \/ Clear /\ TrackIds("") /\ TrackEmbedding("", <<>>) /\ UNCHANGED <<threadVars, saved, bufferVars, handlerVars>>

SpecCore == Init /\ [][NextCore]_vars

\* the whole index API, with one content string
SnapshotEmbeddings == {UnitVec(Dim, 1), ShortVec}

Next ==
    \/ \E d \in DocIds, e \in SnapshotEmbeddings :
           AddDocument(d, e, "c1", "{}") /\ TrackSaved /\ UNCHANGED <<threadVars, idHistory, bufferVars, handlerVars>>
    \/ \E d \in DocIds :
           RemoveDocument(d) /\ TrackSaved /\ UNCHANGED <<threadVars, idHistory, bufferVars, handlerVars>>
    \/ Clear /\ TrackSaved /\ UNCHANGED <<threadVars, idHistory, bufferVars, handlerVars>>
    \/ Save(OwnPath) /\ TrackSaved /\ UNCHANGED <<threadVars, idHistory, bufferVars, handlerVars>>
    \/ \E p \in Paths, dmg \in Damages :
           Load(p, dmg) /\ TrackSaved /\ UNCHANGED <<threadVars, idHistory, bufferVars, handlerVars>>

Spec == Init /\ [][Next]_vars

\* the index under add, remove, clear and the load of a snapshot another
\* index wrote, with the history of the ids handed out
MaxHistory == 3

NextIndexHistory ==
    \/ \E d \in DocIds :
           /\ Len(epochIds) < MaxHistory
           /\ AddDocument(d, UnitVec(dim_, 1), "c1", "{}") /\ TrackIds(d)
           /\ UNCHANGED <<threadVars, saved, embeddingOf, bufferVars, handlerVars>>
    \/ \E d \in DocIds :
           /\ removeCount < MaxHistory
           /\ RemoveDocument(d) /\ TrackIds(d)
           /\ UNCHANGED <<threadVars, saved, embeddingOf, bufferVars, handlerVars>>
    \/ /\ cleared = "never"
       /\ Clear /\ TrackIds("")
       /\ UNCHANGED <<threadVars, saved, embeddingOf, bufferVars, handlerVars>>
    \/ \E p \in Paths, dmg \in {"none", "no_bin"} :
           /\ Load(p, dmg) /\ TrackIds("")
           /\ UNCHANGED <<threadVars, saved, embeddingOf, bufferVars, handlerVars>>

SpecIndexHistory == Init /\ [][NextIndexHistory]_vars

\* the episodic buffer under add_episode and clear
NextEpisodes ==
    \/ \E q \in EpisodeQueries, e \in EpisodeEmbeddings :
           /\ Len(inserted) < MaxAdds
           /\ AddEpisode(q, "r1", e, "{}") /\ TrackInserted /\ UNCHANGED <<threadVars, indexVars, handlerVars>>
    \/ ClearBuffer /\ TrackInserted /\ UNCHANGED <<threadVars, indexVars, handlerVars>>
    \/ Tick /\ UNCHANGED <<threadVars, inserted, indexVars, handlerVars>>

SpecEpisodes == Init /\ [][NextEpisodes]_vars

\* the episodic buffer with load_from_file
NextBuffer ==
    \/ \E q \in EpisodeQueries, e \in EpisodeEmbeddings :
           AddEpisode(q, "r1", e, "{}") /\ UNCHANGED <<threadVars, inserted, indexVars, handlerVars>>
    \/ ClearBuffer /\ UNCHANGED <<threadVars, inserted, indexVars, handlerVars>>
    \/ \E f \in EpisodeFiles : LoadFromFile(f) /\ UNCHANGED <<threadVars, inserted, indexVars, handlerVars>>
    \/ Tick /\ UNCHANGED <<threadVars, inserted, indexVars, handlerVars>>

SpecBuffer == Init /\ [][NextBuffer]_vars

\* the handler: documents, episodes and concepts go in, queries are processed
HandlerDocuments ==
    {<<"d1", UnitVec(Dim, 1), Alpha>>, <<"d2", UnitVec(Dim, 1), EmptyText>>,
     <<"d2", UnitVec(Dim, Dim), Alpha>>, <<"d2", ShortVec, Alpha>>}
HandlerEpisodeEmbeddings == {UnitVec(Dim, 1), ShortVec}
QueryEmbeddings == {UnitVec(Dim, 1), ShortVec}
QueryConfigs ==
    {DefaultQueryConfig,
     [DefaultQueryConfig EXCEPT !.use_episodic = FALSE],
     [DefaultQueryConfig EXCEPT !.use_semantic = FALSE],
     [DefaultQueryConfig EXCEPT !.check_hallucination = FALSE],
     [DefaultQueryConfig EXCEPT !.generate_explanation = FALSE],
     [DefaultQueryConfig EXCEPT !.top_k_results = 1]}
ConceptLists == {<<<<Alpha, UnitVec(Dim, 1)>>>>}
RelationLists == {<<>>} \cup {<<<<Alpha, Beta, w>>>> : w \in EdgeWeights}
Batches ==
    {<<<<"d1", UnitVec(Dim, 1), Alpha>>, <<"d2", UnitVec(Dim, Dim), Alpha>>>>,
     <<<<"d1", UnitVec(Dim, 1), Alpha>>, <<"d1", UnitVec(Dim, 1), Alpha>>>>,
     <<<<"d1", UnitVec(Dim, 1), Alpha>>, <<"d2", ShortVec, Alpha>>>>,
     <<<<"d2", ShortVec, Alpha>>, <<"d1", UnitVec(Dim, 1), Alpha>>>>}
MaxHandlerEpisodes == 1         \* episodes the handler is given

NextHandler ==
    \/ \E doc \in HandlerDocuments :
           /\ AddDocument(doc[1], doc[2], doc[3], "null")
           /\ response_' = [kind |-> "none"]
           /\ UNCHANGED <<threadVars, idHistory, saved, bufferVars, nodes_, weights_>>
    \/ \E documents \in Batches :
           BatchIndexDocuments(documents) /\ UNCHANGED <<threadVars, idHistory, saved, bufferVars>>
    \/ \E e \in HandlerEpisodeEmbeddings :
           /\ buffer_size < MaxHandlerEpisodes
           /\ AddEpisode(Alpha, Beta, e, "{}")
           /\ response_' = [kind |-> "none"]
           /\ UNCHANGED <<threadVars, inserted, indexVars, nodes_, weights_>>
    \/ \E concepts \in ConceptLists, relations \in RelationLists :
           PopulateSemanticNetwork(concepts, relations)
           /\ UNCHANGED <<threadVars, indexVars, bufferVars>>
    \/ \E query \in HandlerQueries, e \in QueryEmbeddings, config \in QueryConfigs :
           ProcessQuery(query, e, config) /\ UNCHANGED <<threadVars, indexVars, bufferVars>>

SpecHandler == Init /\ [][NextHandler]_vars

\* the concept graph under add_node, add_edge and spread_activation
SourceLists == {<<NodeA>>, <<NodeA, NodeA>>, <<NodeD, NodeB>>}
DecayFactors == {<<7, 10>>}
ActivationThresholds == {<<1, 10>>, <<6, 10>>}
HasEdge(nodes, source, target) ==
    source \in DOMAIN nodes /\ target \in DOMAIN nodes[source].edges

NextGraph ==
    \/ GraphAddNode(NodeA, UnitVec(Dim, 1)) /\ UNCHANGED <<threadVars, indexVars, bufferVars>>
    \/ \E edge \in GraphEdges, w \in GraphWeights :
           /\ num_edges(nodes_) < MaxEdges \/ HasEdge(nodes_, edge[1], edge[2])
           /\ GraphAddEdge(edge[1], edge[2], w)
           /\ UNCHANGED <<threadVars, indexVars, bufferVars>>
    \/ \E sources \in SourceLists, max_hops \in 0..MaxHops, decay \in DecayFactors,
          threshold \in ActivationThresholds :
           SpreadActivation(sources, max_hops, decay, threshold)
           /\ UNCHANGED <<threadVars, indexVars, bufferVars>>

SpecGraph == Init /\ [][NextGraph]_vars

\* the concept graph with a fork that joins again, under spread_activation,
\* decay_activations and reset_activations: A to B and to C, both to E, E to F
NodeE == <<"E">>
NodeF == <<"F">>
ForkEdges == {<<NodeA, NodeB, <<1, 1>>>>, <<NodeA, NodeC, <<1, 2>>>>,
              <<NodeB, NodeE, <<1, 1>>>>, <<NodeC, NodeE, <<1, 1>>>>,
              <<NodeE, NodeF, <<1, 1>>>>}
MaxForkHops == 3
DecayRates == {<<1, 2>>}

NextActivation ==
    \/ \E edge \in ForkEdges :
           /\ ~HasEdge(nodes_, edge[1], edge[2])
           /\ GraphAddEdge(edge[1], edge[2], edge[3])
           /\ UNCHANGED <<threadVars, indexVars, bufferVars>>
    \/ \E max_hops \in 1..MaxForkHops, decay \in DecayFactors :
           /\ SpreadActivation(<<NodeA>>, max_hops, decay, <<1, 10>>)
           /\ UNCHANGED <<threadVars, indexVars, bufferVars>>
    \/ \E rate \in DecayRates :
           /\ last.op # "decay_activations"
           /\ DecayActivations(rate)
           /\ UNCHANGED <<threadVars, indexVars, bufferVars>>
    \/ ResetActivations /\ UNCHANGED <<threadVars, indexVars, bufferVars>>

SpecActivation == Init /\ [][NextActivation]_vars

\* The HybridFusion object alone: fuse, set_weights and learn_weights.
FusionItems == {<<"x">>, <<"y">>}
FusionScores == {<<9, 10>>, <<8, 10>>}
VectorLists ==
    {<<>>, <<ScoredResult(<<"x">>, <<9, 10>>, "vector")>>,
     <<ScoredResult(<<"x">>, <<9, 10>>, "vector"), ScoredResult(<<"y">>, <<9, 10>>, "vector")>>,
     <<ScoredResult(<<"x">>, <<8, 10>>, "vector"), ScoredResult(<<"y">>, <<9, 10>>, "vector")>>}
EpisodicLists ==
    {<<>>, <<ScoredResult(<<"x">>, <<8, 10>>, "episodic")>>,
     <<ScoredResult(<<"x">>, <<9, 10>>, "episodic"), ScoredResult(<<"y">>, <<8, 10>>, "episodic")>>}
SemanticLists == {<<>>, <<ScoredResult(<<"y">>, <<8, 10>>, "semantic")>>}
FusionTopKs == {0, 1, 2}
Weights(v, e, s) == [vector_weight |-> v, episodic_weight |-> e, semantic_weight |-> s]
AssignedWeights ==
    {Weights(<<6, 10>>, <<2, 10>>, <<2, 10>>), Weights(<<1, 1>>, <<1, 1>>, <<0, 1>>),
     Weights(<<1, 1>>, <<0, 1>>, <<0, 1>>), Weights(<<0, 1>>, <<0, 1>>, <<0, 1>>)}
FeedbackLists == {<<<<1, 1>>>>, <<<<-1, 1>>>>, <<<<1, 1>>, <<-1, 1>>>>}
\* lists to learn from: lists that fuse returned, and one list of results
\* that carry no per-source scores
LearnLists ==
    {<<ScoredResult(<<"x">>, <<9, 10>>, "vector")>>}
    \cup UNION {fuse(normalize(DefaultFusionWeights), vector_results,
                     <<ScoredResult(<<"x">>, <<8, 10>>, "episodic")>>, <<>>, 2) :
                   vector_results \in VectorLists}
\* weights that no learning step has changed yet have small denominators
MaxDenominator == 5
Unlearned(w) ==
    /\ w.vector_weight[2] <= MaxDenominator
    /\ w.episodic_weight[2] <= MaxDenominator
    /\ w.semantic_weight[2] <= MaxDenominator

NextFusion ==
    \/ \E vector_results \in VectorLists, episodic_results \in EpisodicLists,
          semantic_results \in SemanticLists, top_k \in FusionTopKs :
           FusionFuse(vector_results, episodic_results, semantic_results, top_k)
           /\ UNCHANGED <<threadVars, indexVars, bufferVars>>
    \/ \E weights \in AssignedWeights :
           FusionSetWeights(weights) /\ UNCHANGED <<threadVars, indexVars, bufferVars>>
    \/ \E results \in LearnLists, feedback_scores \in FeedbackLists :
           /\ Unlearned(weights_)
           /\ FusionLearnWeights(results, feedback_scores)
           /\ UNCHANGED <<threadVars, indexVars, bufferVars>>

SpecFusion == Init /\ [][NextFusion]_vars

\* The HallucinationDetector alone: validate on responses with and without
\* hedges and factual indicators, on evidence above and below
\* min_evidence_confidence_.
IThinkAlpha == <<"I", " ", "t", "h", "i", "n", "k", " ", "a", "l", "p", "h", "a">>
ResearchShowsAlpha == <<"R", "e", "s", "e", "a", "r", "c", "h", " ", "s", "h", "o", "w", "s", " ", "a", "l", "p", "h", "a">>
MaybeTheFactIs == <<"M", "a", "y", "b", "e", " ", "t", "h", "e", " ", "f", "a", "c", "t", " ", "i", "s">>
AlphaBetaGamma == <<"A", "l", "p", "h", "a", " ", "b", "e", "t", "a", " ", "g", "a", "m", "m", "a">>
ValidatorResponses ==
    {EmptyText, Alpha, IThinkAlpha, ResearchShowsAlpha, MaybeTheFactIs, AlphaBetaGamma}
EvidenceLists ==
    {<<>>,
     <<Evidence("vector_search", <<5, 10>>, Alpha)>>,
     <<Evidence("vector_search", <<9, 10>>, Alpha)>>,
     <<Evidence("vector_search", <<9, 10>>, Alpha), Evidence("episodic_buffer", <<7, 10>>, Beta)>>,
     <<Evidence("vector_search", <<9, 10>>, AlphaBetaGamma), Evidence("semantic_network", <<6, 10>>, Alpha)>>,
     <<Evidence("vector_search", <<1, 1>>, Beta), Evidence("episodic_buffer", <<1, 1>>, EmptyText)>>,
     <<Evidence("vector_search", <<5, 10>>, Alpha), Evidence("episodic_buffer", <<2, 10>>, Beta)>>}
default_confidence_threshold == <<5, 10>>
ConfidenceThresholds == {default_confidence_threshold, <<0, 1>>, <<9, 10>>}

NextValidator ==
    \E response \in ValidatorResponses, evidence \in EvidenceLists,
       confidence_threshold \in ConfidenceThresholds :
        Validate(Alpha, response, evidence, confidence_threshold)
        /\ UNCHANGED <<threadVars, indexVars, bufferVars>>

SpecValidator == Init /\ [][NextValidator]_vars

\* The index called by two threads at once: add_document, remove_document
\* and search, at most MaxThreadCalls calls in all.
MaxThreadCalls == 3

NextIndexThreads ==
    \E t \in Threads :
        \/ \E op \in {"add_document", "remove_document"}, doc_id \in DocIds :
               /\ CallsStarted < MaxThreadCalls
               /\ ThreadCall(t, op, doc_id)
               /\ UNCHANGED <<indexVars, bufferVars, handlerVars, breaker_>>
        \/ /\ CallsStarted < MaxThreadCalls
           /\ ThreadCall(t, "search", "")
           /\ UNCHANGED <<indexVars, bufferVars, handlerVars, breaker_>>
        \/ AddDocumentEnter(t, UnitVec(Dim, 1), "c1", "{}")
           /\ UNCHANGED <<indexHistory, bufferVars, handlerVars, breaker_>>
        \/ AddDocumentLeave(t) /\ UNCHANGED <<indexHistory, bufferVars, handlerVars, breaker_>>
        \/ RemoveDocumentEnter(t) /\ UNCHANGED <<indexHistory, bufferVars, handlerVars, breaker_>>
        \/ RemoveDocumentLeave(t) /\ UNCHANGED <<indexHistory, bufferVars, handlerVars, breaker_>>
        \/ SearchEnter(t, UnitVec(Dim, 1), MaxElements)
           /\ UNCHANGED <<indexHistory, bufferVars, handlerVars, breaker_>>
        \/ SearchLeave(t) /\ UNCHANGED <<indexHistory, bufferVars, handlerVars, breaker_>>

SpecIndexThreads == Init /\ [][NextIndexThreads]_vars

\* The HybridFusion object called by two threads at once: set_weights with
\* weights of a positive sum, get_weights and fuse.
ThreadWeights ==
    {Weights(<<1, 1>>, <<1, 1>>, <<0, 1>>), Weights(<<1, 1>>, <<0, 1>>, <<1, 1>>),
     Weights(<<1, 1>>, <<2, 1>>, <<1, 1>>)}

NextFusionThreads ==
    \E t \in Threads :
        \/ \E weights \in ThreadWeights :
               SetWeightsAssign(t, weights) /\ UNCHANGED <<indexVars, bufferVars, breaker_>>
        \/ SetWeightsNormalize(t) /\ UNCHANGED <<indexVars, bufferVars, breaker_>>
        \/ GetWeights(t) /\ UNCHANGED <<indexVars, bufferVars, breaker_>>
        \/ \E vector_results \in VectorLists, top_k \in {1, 2} :
               ThreadFuse(t, vector_results,
                          <<ScoredResult(<<"x">>, <<8, 10>>, "episodic")>>, <<>>, top_k)
               /\ UNCHANGED <<indexVars, bufferVars, breaker_>>

SpecFusionThreads == Init /\ [][NextFusionThreads]_vars

\* One circuit breaker called by two threads: at most MaxExecuteCalls calls
\* of execute(), whose function succeeds or fails, trip(), reset(), and the
\* clock up to MaxBreakerClock.
MaxExecuteCalls == 4
MaxBreakerClock == 3

NextBreaker ==
    \/ \E t \in Threads :
           /\ ExecuteCalls < MaxExecuteCalls
           /\ ExecuteAllow(t)
           /\ UNCHANGED <<indexVars, bufferVars, handlerVars>>
    \/ \E t \in Threads : ExecuteBegin(t) /\ UNCHANGED <<indexVars, bufferVars, handlerVars>>
    \/ \E t \in Threads, outcome \in {"success", "failure"} :
           ExecuteOutcome(t, outcome) /\ UNCHANGED <<indexVars, bufferVars, handlerVars>>
    \/ \E t \in Threads : ExecuteEnd(t) /\ UNCHANGED <<indexVars, bufferVars, handlerVars>>
    \/ Trip /\ UNCHANGED <<indexVars, bufferVars, handlerVars>>
    \/ Reset /\ UNCHANGED <<indexVars, bufferVars, handlerVars>>
    \/ now < MaxBreakerClock /\ ClockTick /\ UNCHANGED <<indexVars, handlerVars>>

SpecBreaker == Init /\ [][NextBreaker]_vars

(***************************************************************************)
(* The concept graph under concurrent callers                              *)
(***************************************************************************)
\* a writer of the graph gets past its lock_guard: its call is the next in
\* lock order
GraphLock(t, op, arg) ==
    /\ threads.of[t].pc = "idle"
    /\ CanLock(mutex_, t)
    /\ mutex_' = t
    /\ threads' = [of |-> [threads.of EXCEPT ![t] = [pc |-> "inside", op |-> op, arg |-> arg]],
                   log |-> Append(threads.log, [thread |-> t, op |-> op, arg |-> arg])]
    /\ UNCHANGED last

\* the lock_guard of a writer is destroyed and its call returns
GraphUnlock(t, ret) ==
    /\ mutex_' = "free"
    /\ threads' = [threads EXCEPT !.of[t] = Idle]
    /\ last' = [op |-> threads.of[t].op, arg |-> threads.of[t].arg, ret |-> ret, dim |-> dim_]

\* SemanticNetwork::add_edge, from the lock_guard to the end of "Ensure
\* nodes exist"
AddEdgeEnter(t, source, target, weight) ==
    /\ GraphLock(t, "add_edge", <<source, target, weight>>)
    /\ nodes_' = emplace(emplace(nodes_, source, SemanticNode(source, <<>>)),
                         target, SemanticNode(target, <<>>))
    /\ UNCHANGED <<weights_, response_>>

\* SemanticNetwork::add_edge, "nodes_[source].edges[target] = weight" and
\* the return
AddEdgeLeave(t) ==
    /\ Inside(t) /\ threads.of[t].op = "add_edge"
    /\ nodes_' = add_edge(nodes_, threads.of[t].arg[1], threads.of[t].arg[2],
                          threads.of[t].arg[3])
    /\ GraphUnlock(t, "void")
    /\ UNCHANGED <<weights_, response_>>

\* SemanticNetwork::spread_activation, from the lock_guard to the end of
\* "Reset activations"
SpreadActivationEnter(t, source_concepts, max_hops, decay_factor, activation_threshold) ==
    /\ GraphLock(t, "spread_activation",
                 <<source_concepts, max_hops, decay_factor, activation_threshold>>)
    /\ nodes_' = reset_activations(nodes_)
    /\ UNCHANGED <<weights_, response_>>

\* SemanticNetwork::spread_activation, from the BFS to the return
SpreadActivationLeave(t) ==
    /\ Inside(t) /\ threads.of[t].op = "spread_activation"
    /\ \E outcome \in spread_activation(nodes_, threads.of[t].arg[1], threads.of[t].arg[2],
                                        threads.of[t].arg[3], threads.of[t].arg[4]) :
           /\ nodes_' = outcome.nodes
           /\ GraphUnlock(t, outcome.results)
    /\ UNCHANGED <<weights_, response_>>

\* SemanticNetwork::get_node: the lookup runs under the lock_guard, which is
\* destroyed at the return; the caller is left with the address of the node
GetNode(t, concept) ==
    /\ threads.of[t].pc = "idle"
    /\ CanLock(mutex_, t)
    /\ threads' = [of |-> [threads.of EXCEPT ![t] =
                              IF concept \in DOMAIN nodes_
                              THEN [pc |-> "pointer", node |-> concept]
                              ELSE Idle],
                   log |-> Append(threads.log,
                                  [thread |-> t, op |-> "get_node", arg |-> concept])]
    /\ last' = [op |-> "get_node", arg |-> concept,
                ret |-> IF concept \in DOMAIN nodes_ THEN "pointer" ELSE "nullopt",
                dim |-> dim_]
    /\ UNCHANGED <<mutex_, handlerVars>>

\* the caller of get_node reads a field of the node through the pointer; the
\* read takes no lock, and while a writer is inside it is a data race, which
\* can give the bytes in memory or anything else
ReadNode(t, field) ==
    /\ threads.of[t].pc = "pointer"
    /\ \E raced \in (IF mutex_ = "free" THEN {FALSE} ELSE {FALSE, TRUE}) :
           last' = [op |-> "read_node", arg |-> <<t, threads.of[t].node, field>>,
                    ret |-> IF raced THEN "undefined"
                            ELSE IF field = "edges" THEN nodes_[threads.of[t].node].edges
                            ELSE nodes_[threads.of[t].node].activation_level,
                    during |-> mutex_, dim |-> dim_]
    /\ threads' = [threads EXCEPT !.of[t] = Idle]
    /\ UNCHANGED <<mutex_, handlerVars>>

MaxGraphCalls == 3

NextGraphThreads ==
    \E t \in Threads :
        \/ \E target \in {NodeB, NodeC} :
               /\ Len(threads.log) < MaxGraphCalls
               /\ AddEdgeEnter(t, NodeA, target, <<1, 1>>)
               /\ UNCHANGED <<indexVars, bufferVars, breaker_>>
        \/ AddEdgeLeave(t) /\ UNCHANGED <<indexVars, bufferVars, breaker_>>
        \/ /\ Len(threads.log) < MaxGraphCalls
           /\ SpreadActivationEnter(t, <<NodeA>>, 1, <<7, 10>>, <<1, 10>>)
           /\ UNCHANGED <<indexVars, bufferVars, breaker_>>
        \/ SpreadActivationLeave(t) /\ UNCHANGED <<indexVars, bufferVars, breaker_>>
        \/ \E concept \in {NodeA, NodeB} :
               /\ Len(threads.log) < MaxGraphCalls
               /\ GetNode(t, concept)
               /\ UNCHANGED <<indexVars, bufferVars, breaker_>>
        \/ \E field \in {"edges", "activation_level"} :
               ReadNode(t, field) /\ UNCHANGED <<indexVars, bufferVars, breaker_>>

SpecGraphThreads == Init /\ [][NextGraphThreads]_vars

(***************************************************************************)
(* Properties of the vector index.                                         *)
(***************************************************************************)
QueriesFor(ix) == {q \in Embeddings : ~SearchThrows(ix, q)}

\* C1 as stated: size() is the number of distinct doc_ids whose add_document
\* returned true minus the number of doc_ids whose remove_document returned
\* true (counted since construction or the last clear()).
C1_SizeIsDistinctAddedMinusRemoved ==
    size = Cardinality(addedDocIds) - Cardinality(removedDocIds)

\* C1 amended: size() is the number of add_document calls that returned true
\* minus the number of remove_document calls that returned true (counted
\* since construction or the last clear()), which is the number of live
\* documents.
C1_SizeIsAddsMinusRemoves ==
    /\ size = Len(epochIds) - removeCount
    /\ size = Cardinality(DOMAIN internal_id_to_doc_id_)

\* a document was removed and added again
C1_Witness ==
    /\ removeCount >= 1
    /\ Len(epochIds) = MaxElements
    /\ size = MaxElements - 1
    /\ removedDocs = {}

\* C4 as stated: every internal_id add_document assigns is larger than every
\* internal_id assigned before it during the life of the index, clear()
\* included.
C4_IdsNeverReused ==
    [][Did("add_document", "true") => \A i \in usedIds : i < next_internal_id_]_vars

\* C4 amended: the internal_ids assigned since construction or the last
\* clear() are strictly increasing, hence pairwise distinct, and start at 0.
C4_IdsIncreaseBetweenClears ==
    /\ \A i, j \in 1..Len(epochIds) : i < j => epochIds[i] < epochIds[j]
    /\ Len(epochIds) >= 1 => epochIds[1] = 0

\* ids were assigned, the index was cleared, and two ids were assigned again
C4_Witness ==
    /\ cleared # "never"
    /\ Len(epochIds) = 2
    /\ usedIds = {0, 1}
    /\ removeCount = 0
    /\ last.op = "add_document"

\* C11: right after clear(), whatever preceded it, size() is 0, has_document
\* is false for every doc_id and every search returns the empty list; and
\* an add_document of an absent doc_id with an embedding of the index
\* dimension succeeds as long as fewer than max_elements documents were
\* added since construction or the last clear().
ClearedIsEmpty ==
    last.op = "clear" =>
        /\ size = 0
        /\ \A d \in DocIds : ~has_document(d)
        /\ \A q \in QueriesFor(IndexRec), k \in TopKs : search(q, k) = <<>>

\* C11: the index is empty after clear() and takes max_elements documents again
C11_ClearedIsEmptyAndRefillable ==
    /\ []ClearedIsEmpty
    /\ [][(/\ last'.op = "add_document"
           /\ last'.arg \notin DOMAIN documents_
           /\ last'.ret # "invalid_argument"
           /\ Len(epochIds) < max_elements_) => last'.ret = "true"]_vars

\* an index with tombstones was cleared and then took max_elements documents
C11_Witness ==
    /\ cleared = "tombstoned"
    /\ Len(epochIds) = MaxElements
    /\ size = MaxElements
    /\ removeCount = 0

\* C5 as stated: at most max_elements documents are live, and add_document
\* raises the capacity error only when max_elements documents are live.
C5_CapacityErrorOnlyWhenFull ==
    /\ size <= max_elements_
    /\ (last.op = "add_document" /\ last.ret = "runtime_error") => size >= max_elements_

\* C6: an add_document call that returns false or raises leaves every field
\* of the index (documents, mappings, next internal id, structure,
\* configuration) as it was.
C6_FailedAddChangesNothing ==
    [][(last'.op = "add_document" /\ last'.ret # "true") => UNCHANGED indexFields]_vars

\* an add was refused for capacity while a document was live
C6_Witness == last.op = "add_document" /\ last.ret = "runtime_error" /\ size >= 1

\* an add was refused as a duplicate; an add was refused for its dimension
C6_WitnessDuplicate == last.op = "add_document" /\ last.ret = "false"
C6_WitnessDimension == last.op = "add_document" /\ last.ret = "invalid_argument" /\ size >= 1

\* C7: a doc_id whose remove_document returned true and that was not added
\* again is absent (has_document is false) and is in no search result; a
\* remove_document of an absent doc_id returns false and changes nothing.
RemovedStaysGone ==
    \A d \in removedDocs :
        /\ ~has_document(d)
        /\ \A q \in QueriesFor(IndexRec), k \in TopKs :
               \A i \in 1..Len(search(q, k)) : search(q, k)[i].doc_id # d

C7_RemovedIsGone ==
    /\ []RemovedStaysGone
    /\ [][(last'.op = "remove_document" /\ last'.arg \notin DOMAIN documents_)
              => (last'.ret = "false" /\ UNCHANGED indexFields)]_vars

\* a document is removed while another one is live and found by search
C7_Witness ==
    /\ removedDocs # {}
    /\ size >= 1
    /\ \E q \in QueriesFor(IndexRec) : Len(search(q, 2)) = 1

\* C8 as stated: after load() returned false the index is empty and its
\* configuration is the one it had before the call.
C8_FailedLoadLeavesEmpty ==
    (last.op = "load" /\ last.ret = "false") =>
        /\ size = 0
        /\ DOMAIN internal_id_to_doc_id_ = {}
        /\ dim_ = last.dim

\* C9 as stated: load() returns true only if the sidecar's declared dim is
\* the dimension the index had when load() was called.
C9_LoadChecksDimension ==
    (last.op = "load" /\ last.ret = "true") => disk[last.arg].meta.dim = last.dim

\* C10 as stated: after save() and a load() that returns true on an index of
\* the same dimension, the documents, size(), the next internal id and the
\* doc_id sequence of every search are those of the index that was saved.
SameAsSaved ==
    /\ documents_ = saved.ix.documents
    /\ size = Cardinality(DOMAIN saved.ix.documents)
    /\ next_internal_id_ = saved.ix.next_internal_id
    /\ \A q \in QueriesFor(IndexRec), k \in TopKs :
           DocIdsOf(search(q, k)) = DocIdsOf(SearchOn(saved.ix, q, k))

C10_SaveLoadRoundTrip ==
    (last.op = "load" /\ last.ret = "true" /\ last.arg = OwnPath /\ last.dim = dim_)
        => SameAsSaved

\* C12: search(q, k) returns at most k results in non-increasing similarity,
\* every result is the record of a live document, and the result is empty
\* when the index holds no documents.
C12_SearchIsBoundedSortedLive ==
    \A q \in QueriesFor(IndexRec), k \in TopKs :
        LET results == search(q, k)
        IN  /\ Len(results) <= k
            /\ \A i \in 1..(Len(results) - 1) :
                   RatLeq(results[i + 1].similarity, results[i].similarity)
            /\ \A i \in 1..Len(results) :
                   /\ has_document(results[i].doc_id)
                   /\ results[i].content = documents_[results[i].doc_id].content
                   /\ results[i].metadata = documents_[results[i].doc_id].metadata
            /\ size = 0 => results = <<>>

\* two live documents at different distances from a query: top_k 2 returns
\* both, nearer first, and top_k 1 only the nearer
C12_Witness ==
    /\ size = 2
    /\ \E q \in QueriesFor(IndexRec) :
           /\ Len(search(q, 2)) = 2
           /\ RatLess(search(q, 2)[2].similarity, search(q, 2)[1].similarity)
           /\ search(q, 1) = <<search(q, 2)[1]>>

\* cosine of the angle between a and b is 1
SameDirection(a, b) == Dot(a, b) > 0 /\ Dot(a, b) * Dot(a, b) = Dot(a, a) * Dot(b, b)

\* C13 as stated: for every live document d, added with embedding e,
\* search(e, 1) returns exactly one result, with doc_id d and similarity at
\* least 0.99, whatever other documents the index holds.
C13_SearchFindsInserted ==
    \A d \in DOMAIN embeddingOf :
        LET results == search(embeddingOf[d], 1)
        IN  /\ Len(results) = 1
            /\ results[1].doc_id = d
            /\ RatLeq(<<99, 100>>, results[1].similarity)

\* C13 amended: for every live document d added with an embedding e of
\* norm above 1e-10, search(e, 1) returns exactly one result, of similarity
\* at least 0.99; its doc_id is d when no other live document was added with
\* an embedding in the direction of e.
C13_SearchFindsInsertedDirection ==
    \A d \in DOMAIN embeddingOf :
        LET e == embeddingOf[d]
            results == search(e, 1)
        IN  Dot(e, e) > 0 =>
                /\ Len(results) = 1
                /\ RatLeq(<<99, 100>>, results[1].similarity)
                /\ (\A o \in DOMAIN embeddingOf \ {d} : ~SameDirection(embeddingOf[o], e))
                       => results[1].doc_id = d

\* two live documents in different directions, each found by its embedding
C13_Witness ==
    /\ DOMAIN embeddingOf = DocIds
    /\ embeddingOf["d1"] = ScaleVec(2, UnitVec(Dim, 1))
    /\ embeddingOf["d2"] = UnitVec(Dim, Dim)
    /\ search(embeddingOf["d1"], 1)[1].doc_id = "d1"
    /\ search(embeddingOf["d2"], 1)[1].doc_id = "d2"

(***************************************************************************)
(* Properties of the episodic buffer.                                      *)
(***************************************************************************)
Range(seq) == {seq[i] : i \in 1..Len(seq)}
Thresholds == {<<0, 1>>, <<7, 10>>}

\* C2 as stated: in every reachable state, after any sequence of
\* add_episode, clear and load_from_file, the buffer holds at most
\* max_capacity_ episodes.
C2_CountWithinCapacity == buffer_size <= max_capacity_

\* C3: after n add_episode calls the buffer holds the last min(n, C) of them
\* in insertion order; with n > C, size() == C, is_full() holds and
\* get_recent(C) is exactly the last C insertions; get_recent(m) is the last
\* min(m, size) insertions; retrieve_similar returns only episodes that are
\* still in the buffer, none that was evicted.
C3_RecentAreLastInserted ==
    LET n == Len(inserted)
        kept == Min(n, max_capacity_)
        LastInserted(m) == SubSeq(inserted, n - m + 1, n)
    IN  /\ buffer_size = kept
        /\ n > max_capacity_ =>
               /\ buffer_size = max_capacity_
               /\ is_full
               /\ get_recent(max_capacity_) = LastInserted(max_capacity_)
        /\ \A m \in 0..MaxAdds : get_recent(m) = LastInserted(Min(m, kept))
        /\ \A q \in EpisodeEmbeddings, k \in 0..MaxAdds, th \in Thresholds :
               \A r \in retrieve_similar(q, k, th) :
                   \A i \in 1..Len(r) : r[i] \in Range(LastInserted(kept))

\* more episodes were added than fit, the first one is gone, and a retrieval
\* returns the episodes that are left
C3_Witness ==
    /\ Len(inserted) > max_capacity_
    /\ inserted[1] \notin Range(buffer_)
    /\ \E q \in EpisodeEmbeddings :
           \E r \in retrieve_similar(q, MaxAdds, <<7, 10>>) : Len(r) = max_capacity_

\* the results of retrieve_similar are at most top_k episodes of the buffer
\* that pass the threshold, in non-increasing score order, and no episode
\* left out scores higher than one that was returned
IsTopScored(r, query_embedding, top_k, similarity_threshold) ==
    LET score(e) == EpisodeScore(query_embedding, e, now)
        passing == {i \in 1..Len(buffer_) :
                       PassesThreshold(score(buffer_[i]), similarity_threshold)}
    IN  /\ Len(r) = Min(top_k, Cardinality(passing))
        /\ \A i \in 1..Len(r) : PassesThreshold(score(r[i]), similarity_threshold)
        /\ \A i \in 1..(Len(r) - 1) : RatLeq(score(r[i + 1]), score(r[i]))
        /\ \E f \in Injections(Len(r), passing) :
               /\ \A i \in 1..Len(r) : r[i] = buffer_[f[i]]
               /\ \A j \in passing \ Range(f) :
                      \A i \in 1..Len(r) : RatLeq(score(buffer_[j]), score(r[i]))

\* episodes of equal score are in the order later timestamp first
TiesLaterFirst(r, query_embedding) ==
    \A i, j \in 1..Len(r) :
        (i < j /\ RatEq(EpisodeScore(query_embedding, r[i], now),
                        EpisodeScore(query_embedding, r[j], now)))
            => r[i].timestamp_ms >= r[j].timestamp_ms

\* C20 as stated: retrieve_similar(q, k, threshold) returns at most k
\* episodes of the buffer with score at least threshold, the highest-scoring
\* ones in non-increasing score order, equal scores by later timestamp first.
C20_RetrieveTopScoredTiesByTime ==
    \A q \in EpisodeEmbeddings, k \in 0..MaxAdds, th \in Thresholds :
        \A r \in retrieve_similar(q, k, th) :
            IsTopScored(r, q, k, th) /\ TiesLaterFirst(r, q)

(***************************************************************************)
(* Claims on the CognitiveHandler (SpecHandler).                           *)
(***************************************************************************)
StepOrder == <<"vector_search", "episodic_retrieval", "semantic_activation",
               "hybrid_fusion", "hallucination_check">>
StepIndex(step_type) == CHOOSE i \in 1..Len(StepOrder) : StepOrder[i] = step_type
Returned == last.op = "process_query" /\ response_.kind = "returned"
HasStep(step_type) ==
    \E i \in 1..Len(response_.reasoning_trace) :
        response_.reasoning_trace[i].step_type = step_type

\* C14: the reasoning steps of one process_query call are appended in the
\* order vector_search, episodic_retrieval, semantic_activation,
\* hybrid_fusion, hallucination_check, each kind at most once: the step
\* types of the trace are strictly increasing in that order.
C14_StepsInFixedOrder ==
    Returned =>
        LET trace == response_.reasoning_trace
        IN  /\ \A i \in 1..Len(trace) : \E j \in 1..Len(StepOrder) :
                   StepOrder[j] = trace[i].step_type
            /\ \A i, j \in 1..Len(trace) :
                   i < j => StepIndex(trace[i].step_type) < StepIndex(trace[j].step_type)
            /\ response_.explanation \in {<<>>, trace}

\* a query for which all five steps were appended
C14_Witness ==
    /\ Returned
    /\ Len(response_.reasoning_trace) = Len(StepOrder)
    /\ \A i \in 1..Len(StepOrder) : response_.reasoning_trace[i].step_type = StepOrder[i]
    /\ response_.explanation = response_.reasoning_trace

\* what C15 says of a query that returned
DisabledAreSkipped ==
    Returned =>
        /\ ~response_.config.use_episodic =>
               response_.episodic_results = <<>> /\ ~HasStep("episodic_retrieval")
        /\ ~response_.config.use_semantic =>
               response_.semantic_results = <<>> /\ ~HasStep("semantic_activation")
        /\ response_.results \in fuse(weights_, response_.vector_results,
                                      response_.episodic_results,
                                      response_.semantic_results,
                                      response_.config.top_k_results)
        /\ HasStep("hallucination_check") <=>
               response_.config.check_hallucination /\ response_.response # EmptyText
        /\ ~HasStep("hallucination_check") =>
               response_.hallucination_check = DefaultHallucinationResult

\* C15: a feature disabled in QueryConfig is skipped: with use_episodic
\* false there is no episodic result or step and the buffer is not asked
\* (a query cannot fail there), with use_semantic false there is no semantic
\* result or step and the graph is left as it was; the results are always
\* the fusion of what the sources gave; the response is validated exactly
\* when check_hallucination is true and the response text is not empty.
C15_DisabledFeaturesAreSkipped ==
    /\ []DisabledAreSkipped
    /\ [](last.op = "process_query" /\ response_.kind = "raised"
          /\ ~response_.config.use_episodic => response_.step # "episodic_retrieval")
    /\ [][last'.op = "process_query" /\ response_'.kind = "returned"
          /\ ~response_'.config.use_semantic => nodes_' = nodes_]_vars

\* episodic retrieval is disabled and the episode in the buffer could not be
\* compared with the query; the top result has no text, so the response is
\* not validated although validation is enabled
C15_Witness ==
    /\ Returned
    /\ ~response_.config.use_episodic
    /\ buffer_size > 0
    /\ \A i \in 1..Len(buffer_) : buffer_[i].query_embedding = ShortVec
    /\ response_.config.check_hallucination
    /\ response_.response = EmptyText
    /\ response_.results # <<>>
    /\ ~HasStep("hallucination_check")
    /\ HasStep("hybrid_fusion")

\* C16: the response text of process_query is the content of the top fused
\* result and its confidence that result's score; when fusion yields
\* nothing the text is "No results found." and the confidence 0; with an
\* empty index the trace has no vector_search step.
C16_ResponseIsTopFusedResult ==
    Returned =>
        /\ response_.results # <<>> =>
               /\ response_.response = response_.results[1].content
               /\ response_.overall_confidence = response_.results[1].score
               /\ \A i \in 1..Len(response_.results) :
                      RatLeq(response_.results[i].score, response_.overall_confidence)
        /\ response_.results = <<>> =>
               /\ response_.response = NoResultsFound
               /\ response_.overall_confidence = <<0, 1>>
        /\ size = 0 => ~HasStep("vector_search")

\* two fused results of different scores, the response is the better one
C16_Witness ==
    /\ Returned
    /\ Len(response_.results) >= 2
    /\ RatLess(response_.results[2].score, response_.results[1].score)
    /\ response_.response = Alpha
    /\ response_.results[2].content = EmptyText

\* nothing to fuse: the index, the buffer and the graph are empty
C16_WitnessNoResults ==
    /\ Returned
    /\ size = 0 /\ buffer_size = 0 /\ num_nodes(nodes_) = 0
    /\ response_.response = NoResultsFound
    /\ response_.reasoning_trace = <<>>

\* a process_query call in which a component threw
FailedQuery == last.op = "process_query" /\ last.ret # "returned"

\* C17: when a component fails during process_query the call returns a
\* response with empty results, the text "No results found.", confidence 0
\* and a trace that ends with an error step naming the kind of error.
C17_FailedQueryReturnsErrorResponse ==
    FailedQuery =>
        /\ response_.kind = "returned"
        /\ response_.results = <<>>
        /\ response_.response = NoResultsFound
        /\ response_.overall_confidence = <<0, 1>>
        /\ response_.reasoning_trace # <<>>
        /\ response_.reasoning_trace[Len(response_.reasoning_trace)].step_type = "error"

\* C18: a process_query call that fails raises to the caller and returns no
\* results; it leaves the episodic buffer and the concept graph, activation
\* levels included, as they were.  No handler operation but add_episode
\* changes the buffer.
C18_FailedQueryRaisesAndChangesNothing ==
    /\ [](FailedQuery => response_.kind = "raised" /\ response_.what = last.ret)
    /\ [][last'.op = "process_query" /\ last'.ret # "returned" =>
              buffer_' = buffer_ /\ nodes_' = nodes_]_vars
    /\ [][buffer_' # buffer_ => last'.op = "add_episode"]_vars

\* the query failed in the episodic step, with documents in the index and
\* with the graph activated by an earlier query
C18_Witness ==
    /\ FailedQuery
    /\ response_.kind = "raised"
    /\ response_.step = "episodic_retrieval"
    /\ size > 0
    /\ buffer_size > 0
    /\ Alpha \in DOMAIN nodes_
    /\ nodes_[Alpha].activation_level = <<1, 1>>

\* the add_document calls of the last batch that inserted their document
BatchSuccesses ==
    Cardinality({i \in 1..Len(response_.rets) : response_.rets[i] = "true"})

\* C19: batch_index_documents reports the number of documents inserted and
\* the first error; a duplicate or failing document of the batch is never
\* silently ignored.  The call gives back nothing ("void") or ends with the
\* exception of add_document, so at the least: a batch of which a document
\* was not inserted does not end like one that was inserted whole.
C19_BatchReportsSuccessesAndFirstError ==
    response_.kind = "batch" /\ BatchSuccesses < Len(response_.documents) =>
        response_.ret # "void"

(***************************************************************************)
(* Claims on the SemanticNetwork (SpecGraph).                              *)
(***************************************************************************)
AnyEmbeddings == {<<>>, UnitVec(Dim, 1), UnitVec(Dim, Dim)}

\* add_node on the graph as it is: a present name changes nothing, a second
\* call changes nothing
AddNodeTwiceIsOnce ==
    \A name \in GraphNames, e \in AnyEmbeddings :
        LET once == add_node(nodes_, name, e)
        IN  /\ \A e2 \in AnyEmbeddings : add_node(once, name, e2) = once
            /\ name \in DOMAIN nodes_ => once = nodes_
            /\ name \notin DOMAIN nodes_ =>
                   /\ DOMAIN once = DOMAIN nodes_ \cup {name}
                   /\ once[name] = SemanticNode(name, e)
                   /\ \A c \in DOMAIN nodes_ : once[c] = nodes_[c]

\* C21: add_node on a name that already exists, created by add_node or by
\* add_edge, leaves the node's embedding, edges and activation and the rest
\* of the graph unchanged; calling add_node twice is the same as once.
C21_AddNodeIsIdempotent ==
    /\ []AddNodeTwiceIsOnce
    /\ [][last'.op = "add_node" /\ last'.arg[1] \in DOMAIN nodes_ => nodes_' = nodes_]_vars

\* add_node was called with an embedding on a node that add_edge had created
\* without one and that has an edge and an activation
C21_Witness ==
    /\ last.op = "add_node"
    /\ last.arg = <<NodeA, UnitVec(Dim, 1)>>
    /\ nodes_[NodeA].embedding = <<>>
    /\ NodeB \in DOMAIN nodes_[NodeA].edges
    /\ nodes_[NodeA].activation_level = <<1, 1>>

\* the graph after add_edge(source, target, weight) compared with the graph
\* before it
EdgeAdded(before, after, source, target, weight) ==
    /\ DOMAIN after = DOMAIN before \cup {source, target}
    /\ after[source].edges[target] = weight
    /\ DOMAIN after[source].edges =
           (IF source \in DOMAIN before THEN DOMAIN before[source].edges ELSE {})
           \cup {target}
    /\ num_edges(after) =
           num_edges(before) + (IF HasEdge(before, source, target) THEN 0 ELSE 1)
    \* the nodes that were there are as they were, but for the one edge
    /\ \A c \in DOMAIN before :
           /\ after[c].embedding = before[c].embedding
           /\ after[c].activation_level = before[c].activation_level
           /\ \A t \in DOMAIN before[c].edges :
                  <<c, t>> # <<source, target>> => after[c].edges[t] = before[c].edges[t]
           /\ c # source => after[c] = before[c]
    \* the end points that were not there have no embedding and no activation
    /\ \A c \in {source, target} \ DOMAIN before :
           /\ after[c].embedding = <<>>
           /\ after[c].activation_level = <<0, 1>>
           /\ c # source => after[c].edges = <<>>

\* add_edge on the graph as it is, and a second add_edge on the same pair
OverwritesWeight ==
    \A source, target \in GraphNames, w1, w2 \in GraphWeights :
        LET first == add_edge(nodes_, source, target, w1)
            second == add_edge(first, source, target, w2)
        IN  /\ EdgeAdded(nodes_, first, source, target, w1)
            /\ second = add_edge(nodes_, source, target, w2)
            /\ second[source].edges[target] = w2
            /\ num_edges(second) = num_edges(first)

\* C22: add_edge(s, t, w) creates s and t when absent and makes the edge
\* s to t have weight w, overwriting an earlier weight; a second add_edge on
\* the same pair leaves one edge with the second weight; num_edges() grows
\* by one only when the edge did not exist; no other node or edge changes.
C22_AddEdgeSetsOneEdge ==
    /\ []OverwritesWeight
    /\ [][last'.op = "add_edge" =>
              EdgeAdded(nodes_, nodes_', last'.arg[1], last'.arg[2], last'.arg[3])]_vars

\* the weight of an edge between two nodes that each have an edge of their
\* own was overwritten
C22_Witness ==
    /\ last.op = "add_edge"
    /\ last.arg = <<NodeA, NodeB, <<2, 1>>>>
    /\ nodes_[NodeA].edges[NodeB] = <<2, 1>>
    /\ nodes_[NodeA].activation_level = <<1, 1>>
    /\ nodes_[NodeB].activation_level = <<7, 10>>
    /\ num_edges(nodes_) = MaxEdges

\* the nodes a path of at most hops edges leads to from a source that is a
\* node of the graph
RECURSIVE ReachedWithin(_, _, _)
ReachedWithin(nodes, source_concepts, hops) ==
    IF hops = 0 THEN Range(source_concepts) \cap DOMAIN nodes
    ELSE LET nearer == ReachedWithin(nodes, source_concepts, hops - 1)
         IN  nearer \cup UNION {DOMAIN nodes[c].edges : c \in nearer}

\* the BFS depth of a reached node from the nearest source
BfsDepth(nodes, source_concepts, concept) ==
    CHOOSE hops \in 0..Cardinality(DOMAIN nodes) :
        /\ concept \in ReachedWithin(nodes, source_concepts, hops)
        /\ \A nearer \in 0..(hops - 1) :
               concept \notin ReachedWithin(nodes, source_concepts, nearer)

RECURSIVE RatPow(_, _)
RatPow(a, n) == IF n = 0 THEN <<1, 1>> ELSE RatMul(a, RatPow(a, n - 1))

\* C23: every entry one spread_activation call returns has an activation of
\* at least 0 and at most decay^hops, hops being the BFS depth of the node
\* from the nearest source; no returned activation exceeds 1.0.
C23_ActivationWithinDecayBound ==
    last.op = "spread_activation" =>
        \A i \in 1..Len(last.ret) :
            LET concept == last.ret[i][1]
                activation == last.ret[i][2]
                hops == BfsDepth(nodes_, last.arg[1], concept)
            IN  /\ RatLeq(<<0, 1>>, activation)
                /\ RatLeq(activation, RatPow(last.arg[3], hops))
                /\ RatLeq(activation, <<1, 1>>)

NoDuplicates(seq) == \A i, j \in 1..Len(seq) : i # j => seq[i] # seq[j]

\* C24: spread_activation terminates on every finite graph, cycles and
\* self-loops included, for every max_hops, decay and threshold, and puts
\* each node on the BFS frontier at most once during a call.
C24_EachNodeOnFrontierOnce ==
    \A sources \in SourceLists, max_hops \in 0..MaxHops, decay \in DecayFactors,
       threshold \in ActivationThresholds :
        \A run \in BfsRuns(nodes_, sources, max_hops, decay, threshold) :
            /\ run.frontier = <<>>
            /\ NoDuplicates(run.pushed)

\* the graph of the example: A to B (1.0), B to C (1.0)
ChainGraph == add_edge(add_edge(<<>>, NodeA, NodeB, <<1, 1>>), NodeB, NodeC, <<1, 1>>)

\* C25: in the output of spread_activation every source that is a node has
\* activation 1.0, every other entry is a node reachable from such a source
\* by at most max_hops edges and has an activation of at least threshold,
\* source names that are not nodes are skipped; A to B (1.0), B to C (1.0)
\* with sources [A], max_hops 2, decay 0.7, threshold 0.1 gives
\* [A:1.0, B:0.7, C:0.49].
C25_SourcesAtOneOthersReachable ==
    /\ last.op = "spread_activation" =>
           LET present == Range(last.arg[1]) \cap DOMAIN nodes_
           IN  /\ \A concept \in present :
                      \E i \in 1..Len(last.ret) : last.ret[i] = <<concept, <<1, 1>>>>
               /\ \A i \in 1..Len(last.ret) :
                      /\ last.ret[i][1] \in ReachedWithin(nodes_, last.arg[1], last.arg[2])
                      /\ last.ret[i][1] \notin present =>
                             RatLeq(last.arg[4], last.ret[i][2])
    /\ {outcome.results :
           outcome \in spread_activation(ChainGraph, <<NodeA>>, 2, <<7, 10>>, <<1, 10>>)}
           = {<<<<NodeA, <<1, 1>>>>, <<NodeB, <<7, 10>>>>, <<NodeC, <<49, 100>>>>>>}

\* the place of a character in the order of the character set
Letters == UpperCase \o LowerCase
RECURSIVE CharCode(_, _)
CharCode(c, i) ==
    IF i > Len(Letters) THEN Len(Letters) + 1
    ELSE IF Letters[i] = c THEN i
    ELSE CharCode(c, i + 1)

\* std::string operator<, on strings of letters
RECURSIVE NameLess(_, _)
NameLess(a, b) ==
    IF b = <<>> THEN FALSE
    ELSE IF a = <<>> THEN TRUE
    ELSE IF Head(a) # Head(b) THEN CharCode(Head(a), 1) < CharCode(Head(b), 1)
    ELSE NameLess(Tail(a), Tail(b))

\* C26: spread_activation returns each activated node exactly once, the
\* sources included, sorted by non-increasing activation, and nodes of equal
\* activation in the lexicographic order of their names.
C26_SortedWithTiesByName ==
    last.op = "spread_activation" =>
        /\ {last.ret[i][1] : i \in 1..Len(last.ret)}
               = {c \in DOMAIN nodes_ : RatLess(<<0, 1>>, nodes_[c].activation_level)}
        /\ \A i, j \in 1..Len(last.ret) : i # j => last.ret[i][1] # last.ret[j][1]
        /\ \A i \in 1..Len(last.ret) : last.ret[i][2] = nodes_[last.ret[i][1]].activation_level
        /\ \A i \in 1..(Len(last.ret) - 1) :
               \/ RatLess(last.ret[i + 1][2], last.ret[i][2])
               \/ /\ RatEq(last.ret[i + 1][2], last.ret[i][2])
                  /\ NameLess(last.ret[i][1], last.ret[i + 1][1])

(***************************************************************************)
(* Claims on HybridFusion (SpecFusion)                                     *)
(***************************************************************************)
\* the scores a source returned for a content, 0 when it returned none
ScoresFrom(results, content) ==
    LET scores == {results[i].score : i \in {j \in 1..Len(results) :
                                                 results[j].content = content}}
    IN  IF scores = {} THEN {<<0, 1>>} ELSE scores

\* the item carries, for each source, a score the source returned for it
CarriesSourceScores(item, vector_results, episodic_results, semantic_results) ==
    /\ DOMAIN item.metadata = {"vector_score", "episodic_score", "semantic_score"}
    /\ item.metadata.vector_score \in ScoresFrom(vector_results, item.content)
    /\ item.metadata.episodic_score \in ScoresFrom(episodic_results, item.content)
    /\ item.metadata.semantic_score \in ScoresFrom(semantic_results, item.content)

WeightedSum(w, v, e, s) ==
    RatAdd(RatAdd(Reduced(RatMul(w.vector_weight, v)), Reduced(RatMul(w.episodic_weight, e))),
           Reduced(RatMul(w.semantic_weight, s)))

\* C27: each item fuse() returns has the score w_v*v + w_e*e + w_s*s of the
\* per-source scores attached to it, a source that did not return the
\* content counting as 0, and the list is sorted by non-increasing score.
C27_ScoreIsWeightedSumSorted ==
    last.op = "fuse" =>
        /\ \A i \in 1..Len(last.ret) :
               /\ CarriesSourceScores(last.ret[i], last.arg[1], last.arg[2], last.arg[3])
               /\ RatEq(last.ret[i].score,
                        WeightedSum(weights_, last.ret[i].metadata.vector_score,
                                    last.ret[i].metadata.episodic_score,
                                    last.ret[i].metadata.semantic_score))
        /\ \A i \in 1..(Len(last.ret) - 1) :
               RatLeq(last.ret[i + 1].score, last.ret[i].score)

\* two items of different score, the three sources all contributing
C27_Witness ==
    /\ last.op = "fuse"
    /\ Len(last.ret) = 2
    /\ last.ret[1].metadata.vector_score = <<9, 10>>
    /\ last.ret[1].metadata.episodic_score = <<8, 10>>
    /\ last.ret[2].metadata.semantic_score = <<8, 10>>
    /\ last.ret[2].metadata.vector_score = <<0, 1>>
    /\ RatLess(last.ret[2].score, last.ret[1].score)
    /\ weights_.vector_weight = <<3, 5>>

AllContents(vector_results, episodic_results, semantic_results) ==
    {vector_results[i].content : i \in 1..Len(vector_results)}
    \cup {episodic_results[i].content : i \in 1..Len(episodic_results)}
    \cup {semantic_results[i].content : i \in 1..Len(semantic_results)}

\* C28: fuse() emits each distinct content at most once, a content that
\* several sources returned being one item that carries each source's
\* score; the result has min(k, number of distinct contents) items, the
\* highest-scoring ones.
C28_OneItemPerContentTopK ==
    last.op = "fuse" =>
        LET returned == {last.ret[i].content : i \in 1..Len(last.ret)}
            contents == AllContents(last.arg[1], last.arg[2], last.arg[3])
        IN  /\ \A i, j \in 1..Len(last.ret) :
                   i # j => last.ret[i].content # last.ret[j].content
            /\ returned \subseteq contents
            /\ \A i \in 1..Len(last.ret) :
                   CarriesSourceScores(last.ret[i], last.arg[1], last.arg[2], last.arg[3])
            /\ Len(last.ret) = Min(last.arg[4], Cardinality(contents))
            /\ \A content \in contents \ returned :
                   \E v \in ScoresFrom(last.arg[1], content),
                      e \in ScoresFrom(last.arg[2], content),
                      s \in ScoresFrom(last.arg[3], content) :
                       \A i \in 1..Len(last.ret) :
                           RatLeq(WeightedSum(weights_, v, e, s), last.ret[i].score)

\* "x" from the vector and the episodic source is one item of score 0.70
C28_Witness ==
    /\ last.op = "fuse"
    /\ last.arg = <<<<ScoredResult(<<"x">>, <<9, 10>>, "vector")>>,
                    <<ScoredResult(<<"x">>, <<8, 10>>, "episodic")>>, <<>>, 2>>
    /\ weights_ = Weights(<<3, 5>>, <<1, 5>>, <<1, 5>>)
    /\ Len(last.ret) = 1
    /\ last.ret[1].content = <<"x">>
    /\ last.ret[1].score = <<7, 10>>

\* a content was cut off by top_k
C28_WitnessTruncated ==
    /\ last.op = "fuse"
    /\ last.arg[4] = 1
    /\ Cardinality(AllContents(last.arg[1], last.arg[2], last.arg[3])) = 2
    /\ Len(last.ret) = 1

\* the order the spec gives to two fused items
FusedBefore(a, b) ==
    \/ RatLess(b.score, a.score)
    \/ /\ RatEq(a.score, b.score)
       /\ \/ RatLess(b.metadata.vector_score, a.metadata.vector_score)
          \/ /\ RatEq(a.metadata.vector_score, b.metadata.vector_score)
             /\ \/ RatLess(b.metadata.episodic_score, a.metadata.episodic_score)
                \/ /\ RatEq(a.metadata.episodic_score, b.metadata.episodic_score)
                   /\ NameLess(a.content, b.content)

\* C29: the order of fuse() output is deterministic: items of equal fused
\* score are ordered by descending vector score, then descending episodic
\* score, then lexicographic content, so that the same inputs and weights
\* give the same sequence and the same top-k set.
C29_TiesByVectorEpisodicContent ==
    last.op = "fuse" =>
        \A i \in 1..(Len(last.ret) - 1) : FusedBefore(last.ret[i], last.ret[i + 1])

IsNormalized(w) ==
    /\ RatLeq(<<0, 1>>, w.vector_weight)
    /\ RatLeq(<<0, 1>>, w.episodic_weight)
    /\ RatLeq(<<0, 1>>, w.semantic_weight)
    /\ RatEq(RatAdd(RatAdd(w.vector_weight, w.episodic_weight), w.semantic_weight), <<1, 1>>)

SumsToZero(w) ==
    RatEq(RatAdd(RatAdd(w.vector_weight, w.episodic_weight), w.semantic_weight), <<0, 1>>)

EqualWeights(w) ==
    /\ RatEq(w.vector_weight, <<1, 3>>)
    /\ RatEq(w.episodic_weight, <<1, 3>>)
    /\ RatEq(w.semantic_weight, <<1, 3>>)

\* learn_weights took place on a list with as many feedback scores
Learned == last'.op = "learn_weights" /\ Len(last'.arg[1]) = Len(last'.arg[2]) /\ last'.arg[1] # <<>>

\* C30: after construction and after every set_weights or learn_weights
\* call the fusion weights are non-negative and sum to 1; an assignment of
\* weights that sum to zero yields equal weights; weights a learning step
\* would drive negative are clamped to 0 before normalizing.
C30_WeightsStayNormalized ==
    /\ []IsNormalized(weights_)
    /\ [][last'.op = "set_weights" /\ SumsToZero(last'.arg[1]) => EqualWeights(weights_')]_vars
    /\ [][Learned =>
              LET learned == LearnedWeights(weights_, last'.arg[1], last'.arg[2])
              IN  /\ RatLess(learned.vector_weight, <<0, 1>>) =>
                         RatEq(weights_'.vector_weight, <<0, 1>>)
                  /\ RatLess(learned.episodic_weight, <<0, 1>>) =>
                         RatEq(weights_'.episodic_weight, <<0, 1>>)
                  /\ RatLess(learned.semantic_weight, <<0, 1>>) =>
                         RatEq(weights_'.semantic_weight, <<0, 1>>)]_vars

(***************************************************************************)
(* Claims on the HallucinationDetector (SpecValidator)                     *)
(***************************************************************************)
StrongEvidence(evidence) ==
    SelectSeq(evidence, LAMBDA ev : RatLeq(min_evidence_confidence_, ev.confidence))

HasIndicator(response) ==
    \E indicator \in factual_indicators : Contains(to_lowercase(response), indicator)

HasHedge(response) ==
    \E pattern \in hallucination_patterns_ : Contains(to_lowercase(response), pattern)

Clamp01(x) == IF RatLess(x, <<0, 1>>) THEN <<0, 1>> ELSE IF RatLess(<<1, 1>>, x) THEN <<1, 1>> ELSE x

\* C31: validate() returns confidence_score = clamp(support - 0.2 * number
\* of flags, 0, 1), a value in [0,1], and is_hallucination is true exactly
\* when confidence_score < threshold; with empty evidence and a response
\* that has no factual indicator and no hedge, confidence_score is 0 and
\* is_hallucination is true at the default threshold.
C31_ConfidenceIsClampedSupport ==
    last.op = "validate" =>
        LET response == last.arg[2]
            evidence == last.arg[3]
            threshold == last.arg[4]
            support == compute_evidence_support(response, StrongEvidence(evidence))
        IN  /\ RatEq(last.ret.confidence_score,
                     Clamp01(RatAdd(support, <<-2 * Len(last.ret.flags), 10>>)))
            /\ RatLeq(<<0, 1>>, last.ret.confidence_score)
            /\ RatLeq(last.ret.confidence_score, <<1, 1>>)
            /\ last.ret.is_hallucination <=> RatLess(last.ret.confidence_score, threshold)
            /\ evidence = <<>> /\ ~HasIndicator(response) /\ ~HasHedge(response) =>
                   /\ RatEq(last.ret.confidence_score, <<0, 1>>)
                   /\ threshold = default_confidence_threshold => last.ret.is_hallucination

\* a hedge costs 0.2 of the support of two pieces of strong evidence
C31_Witness ==
    /\ last.op = "validate"
    /\ last.arg[2] = IThinkAlpha
    /\ Len(last.arg[3]) = 2
    /\ last.ret.flags = <<"Response contains hedging language">>
    /\ last.ret.confidence_score = <<7, 10>>
    /\ ~last.ret.is_hallucination

\* empty evidence, no indicator, no hedge, the default threshold
C31_WitnessEmptyEvidence ==
    /\ last.op = "validate"
    /\ last.arg = <<Alpha, Alpha, <<>>, default_confidence_threshold>>
    /\ last.ret.confidence_score = <<0, 1>>
    /\ last.ret.is_hallucination

\* C32: validate() raises the unsubstantiated-claims flag exactly when the
\* evidence list passed in is empty and the response contains a factual
\* indicator; a call with non-empty evidence, even evidence all below
\* min_evidence_confidence, never gets the flag.
C32_UnsubstantiatedOnlyWithoutEvidence ==
    last.op = "validate" =>
        ("Response contains unsubstantiated claims" \in Range(last.ret.flags)
             <=> last.arg[3] = <<>> /\ HasIndicator(last.arg[2]))

(***************************************************************************)
(* Claims on the index under concurrent callers (SpecIndexThreads)         *)
(***************************************************************************)
\* what the first n calls of the log leave when they are run one after the
\* other: the live doc_ids and the next internal id
RECURSIVE SerialIndex(_, _)
SerialIndex(log, n) ==
    IF n = 0 THEN [live |-> {}, next |-> 0]
    ELSE LET before == SerialIndex(log, n - 1)
             call == log[n]
         IN  IF call.op = "add_document" /\ call.arg \notin before.live
                /\ before.next < MaxElements
             THEN [live |-> before.live \cup {call.arg}, next |-> before.next + 1]
             ELSE IF call.op = "remove_document"
             THEN [live |-> before.live \ {call.arg}, next |-> before.next]
             ELSE before

\* what the n-th call of the log returns when the calls are run one after
\* the other
SerialReturn(log, n) ==
    LET before == SerialIndex(log, n - 1)
        call == log[n]
    IN  IF call.op = "add_document"
        THEN IF call.arg \in before.live THEN "false"
             ELSE IF before.next >= MaxElements THEN "runtime_error"
             ELSE "true"
        ELSE IF call.arg \in before.live THEN "true" ELSE "false"

\* doc_id to record and internal_id to doc_id are inverse to each other
MapsAgree(documents, imap) ==
    /\ \A d \in DOMAIN documents :
           /\ documents[d].internal_id \in DOMAIN imap
           /\ imap[documents[d].internal_id] = d
    /\ \A i \in DOMAIN imap :
           /\ imap[i] \in DOMAIN documents
           /\ documents[imap[i]].internal_id = i

AddedTrue(log) == {i \in 1..Len(log) : log[i].op = "add_document" /\ log[i].ret = "true"}

\* C33: with several threads in add_document, remove_document and search on
\* one index, every call takes effect atomically under the index lock: adds
\* of distinct doc_ids get distinct internal_ids in lock order, of
\* concurrent adds of one doc_id exactly one returns true, and no search
\* sees a document that only one of the two metadata maps records.
C33_CallsAreAtomicInLockOrder ==
    LET log == threads.log
    IN  /\ \A n \in 1..Len(log) :
               log[n].op # "search" => log[n].ret = SerialReturn(log, n)
        /\ \A i, j \in AddedTrue(log) :
               /\ i < j => SerialIndex(log, i).next < SerialIndex(log, j).next
               /\ i < j /\ log[i].arg = log[j].arg =>
                      \E k \in (i + 1)..(j - 1) :
                          /\ log[k].op = "remove_document"
                          /\ log[k].arg = log[i].arg
                          /\ log[k].ret = "true"
        /\ \A t \in Threads :
               Inside(t) /\ threads.of[t].op = "add_document" /\ threads.of[t].ret = "true" =>
                   threads.of[t].seen = SerialIndex(log, Len(log)).next - 1
        /\ \A t \in Threads :
               Inside(t) /\ threads.of[t].op = "search" =>
                   MapsAgree(threads.of[t].seen.documents, threads.of[t].seen.imap)
        /\ mutex_ = "free" => MapsAgree(documents_, internal_id_to_doc_id_)

\* two threads were in add_document of one doc_id at once: the one that took
\* the lock first returned true, the other false
C33_Witness ==
    /\ Len(threads.log) >= 2
    /\ threads.log[1].op = "add_document" /\ threads.log[1].ret = "true"
    /\ threads.log[2].op = "add_document" /\ threads.log[2].ret = "false"
    /\ threads.log[1].arg = threads.log[2].arg
    /\ threads.log[2].thread \in threads.log[1].with
    /\ mutex_ = "free"
    /\ last.op = "add_document" /\ last.ret = "false"

\* a search waited for the lock while an add_document held it
C33_WitnessSearch ==
    /\ Len(threads.log) >= 2
    /\ threads.log[1].op = "add_document" /\ threads.log[1].ret = "true"
    /\ threads.log[2].op = "search" /\ threads.log[2].thread \in threads.log[1].with
    /\ threads.log[2].ret = <<threads.log[1].arg>>

(***************************************************************************)
(* Claims on HybridFusion under concurrent callers (SpecFusionThreads)     *)
(***************************************************************************)
\* the weight triples an update leaves when it runs alone
UpdatedWeights == {normalize(DefaultFusionWeights)} \cup {normalize(w) : w \in ThreadWeights}

\* C34: weight updates on the fusion layer exclude each other and the
\* readers: a fuse() or get_weights() that runs while set_weights or
\* learn_weights runs uses one complete normalized weight triple, the one
\* before or the one after the update, never an unnormalized or half-written
\* one.
C34_ReadersSeeNormalizedWeights ==
    /\ \A t, u \in Threads : Inside(t) /\ Inside(u) => t = u
    /\ last.op = "get_weights" => IsNormalized(last.ret) /\ last.ret \in UpdatedWeights
    /\ last.op = "fuse" =>
           \E w \in UpdatedWeights :
               last.ret \in fuse(w, last.arg[1], last.arg[2], last.arg[3], last.arg[4])

(***************************************************************************)
(* Claims on the CircuitBreaker (SpecBreaker)                              *)
(***************************************************************************)
\* the step in which the function of some execute() returned, or threw
SuccessStep ==
    \E t \in Threads : threads.of[t].pc = "running" /\ threads'.of[t].pc = "success"
FailureStep ==
    \E t \in Threads : threads.of[t].pc = "running" /\ threads'.of[t].pc = "failure"
\* the step in which some execute() was let through, or rejected
Admitted == \E t \in Threads : threads.of[t].pc = "idle" /\ threads'.of[t].pc = "allowed"
Rejected == breaker_'.stats_.rejected_calls = breaker_.stats_.rejected_calls + 1
TripStep == last' # last /\ last'.op = "trip"
ResetStep == last' # last /\ last'.op = "reset"

\* C35: a breaker in CLOSED moves to OPEN exactly when the number of
\* consecutive failed calls reaches failure_threshold; a successful call
\* resets the count of consecutive failures and fewer consecutive failures
\* leave the breaker CLOSED; trip() forces OPEN; reset() forces CLOSED with
\* both consecutive counters at 0.
C35_OpensAtFailureThreshold ==
    [][/\ breaker_.state_ = "CLOSED" /\ breaker_'.state_ = "OPEN" /\ ~TripStep =>
              /\ FailureStep
              /\ breaker_'.stats_.consecutive_failures = config_.failure_threshold
       /\ FailureStep /\ breaker_.state_ = "CLOSED" =>
              /\ breaker_'.stats_.consecutive_failures =
                     breaker_.stats_.consecutive_failures + 1
              /\ IF breaker_'.stats_.consecutive_failures = config_.failure_threshold
                 THEN breaker_'.state_ = "OPEN"
                 ELSE /\ breaker_'.state_ = "CLOSED"
                      /\ breaker_'.stats_.consecutive_failures < config_.failure_threshold
       /\ SuccessStep => breaker_'.stats_.consecutive_failures = 0
       /\ TripStep => breaker_'.state_ = "OPEN"
       /\ ResetStep =>
              /\ breaker_'.state_ = "CLOSED"
              /\ breaker_'.stats_.consecutive_failures = 0
              /\ breaker_'.stats_.consecutive_successes = 0]_vars

\* failure_threshold failed calls in a row, after a success, opened the
\* circuit
C35_Witness ==
    /\ breaker_.state_ = "OPEN"
    /\ breaker_.stats_.successful_calls = 1
    /\ breaker_.stats_.failed_calls = config_.failure_threshold + 1
    /\ breaker_.stats_.consecutive_failures = config_.failure_threshold
    /\ breaker_.stats_.rejected_calls = 0
    /\ breaker_.stats_.last_state_change_time = breaker_.stats_.last_failure_time
    /\ last.op = "execute" /\ last.ret = "failure"

\* reset() closed an open breaker
C35_WitnessReset ==
    /\ last.op = "reset"
    /\ breaker_.state_ = "CLOSED"
    /\ breaker_.stats_.failed_calls = config_.failure_threshold
    /\ breaker_.stats_.consecutive_failures = 0
    /\ breaker_.stats_.last_state_change_time > breaker_.stats_.last_failure_time

TimeoutElapsed == now - breaker_.stats_.last_failure_time >= config_.timeout_ms

\* C36: while the breaker is OPEN and timeout_ms has not elapsed since the
\* last failure, execute() throws CircuitBreakerOpenException without
\* calling the function and the breaker stays OPEN; once the timeout has
\* elapsed the next call is let through with the breaker HALF_OPEN, from
\* which success_threshold consecutive successes move it to CLOSED and any
\* failure moves it back to OPEN.
C36_OpenRejectsUntilTimeout ==
    [][/\ breaker_.state_ = "OPEN" /\ ~TimeoutElapsed /\ (Admitted \/ Rejected) =>
              /\ Rejected /\ ~Admitted
              /\ last'.op = "execute" /\ last'.ret = "CircuitBreakerOpenException"
              /\ breaker_'.state_ = "OPEN"
              /\ breaker_'.concurrent_calls_ = breaker_.concurrent_calls_
              /\ breaker_'.stats_.total_calls = breaker_.stats_.total_calls
       /\ breaker_.state_ = "OPEN" /\ TimeoutElapsed /\ (Admitted \/ Rejected) =>
              /\ Admitted /\ ~Rejected
              /\ breaker_'.state_ = "HALF_OPEN"
       /\ SuccessStep /\ breaker_.state_ = "HALF_OPEN" =>
              IF breaker_.stats_.consecutive_successes + 1 >= config_.success_threshold
              THEN breaker_'.state_ = "CLOSED"
              ELSE breaker_'.state_ = "HALF_OPEN"
       /\ FailureStep /\ breaker_.state_ = "HALF_OPEN" => breaker_'.state_ = "OPEN"]_vars

\* failures opened the breaker and a call was rejected before the timeout
C36_Witness ==
    /\ breaker_.state_ = "OPEN"
    /\ breaker_.stats_.failed_calls = config_.failure_threshold
    /\ breaker_.stats_.rejected_calls = 1
    /\ now = breaker_.stats_.last_failure_time
    /\ last.op = "execute" /\ last.ret = "CircuitBreakerOpenException"

\* after the timeout success_threshold successes closed the breaker
C36_WitnessRecovered ==
    /\ breaker_.state_ = "CLOSED"
    /\ breaker_.stats_.failed_calls = config_.failure_threshold
    /\ breaker_.stats_.successful_calls = config_.success_threshold
    /\ breaker_.stats_.last_state_change_time > breaker_.stats_.last_failure_time
    /\ last.op = "execute" /\ last.ret = "success"

\* the threads whose function is executing inside execute()
Executing == {t \in Threads : threads.of[t].pc = "running"}

\* C37: whatever the interleaving of the calling threads, never more than
\* max_concurrent_calls functions are executing inside execute() of a CLOSED
\* breaker and never more than one inside a HALF_OPEN breaker; calls above
\* the limit are rejected with CircuitBreakerOpenException; the in-flight
\* count is back at 0 when no execute() is running.
C37_ConcurrentCallsWithinLimit ==
    /\ breaker_.state_ = "CLOSED" =>
           Cardinality(Executing) <= config_.max_concurrent_calls
    /\ breaker_.state_ = "HALF_OPEN" => Cardinality(Executing) <= 1
    /\ (\A t \in Threads : threads.of[t].pc = "idle") => breaker_.concurrent_calls_ = 0

(***************************************************************************)
(* Claims on the metadata maps of the index (SpecIndexHistory)             *)
(***************************************************************************)
\* C38: in every reachable state of the vector index the two metadata maps
\* are inverse bijections over the live documents, every live internal_id is
\* below next_internal_id, size() is at most next_internal_id, and a doc_id
\* that was removed and is added again is bound to a fresh internal_id.
C38_MetadataMapsAreInverse ==
    /\ [](/\ MapsAgree(documents_, internal_id_to_doc_id_)
          /\ \A i \in DOMAIN internal_id_to_doc_id_ : i < next_internal_id_
          /\ size <= next_internal_id_)
    /\ [][Did("add_document", "true") /\ last'.arg \in removedDocs =>
              /\ documents_'[last'.arg].internal_id \notin usedIds
              /\ documents_'[last'.arg].internal_id \notin DOMAIN internal_id_to_doc_id_]_vars

(***************************************************************************)
(* Claims on the activations of the concept graph (SpecActivation)         *)
(***************************************************************************)
\* the graph without the activation levels: nodes, embeddings, edges, weights
GraphOf(nodes) ==
    [c \in DOMAIN nodes |-> [concept |-> nodes[c].concept, embedding |-> nodes[c].embedding,
                             edges |-> nodes[c].edges]]

\* the activation of each concept of a returned list
ValuesOf(results) ==
    [c \in {results[i][1] : i \in 1..Len(results)} |->
        (CHOOSE i \in 1..Len(results) : results[i][1] = c)]

ActivationOf(results, c) == results[ValuesOf(results)[c]][2]

SameValues(r1, r2) ==
    /\ DOMAIN ValuesOf(r1) = DOMAIN ValuesOf(r2)
    /\ \A c \in DOMAIN ValuesOf(r1) : RatEq(ActivationOf(r1, c), ActivationOf(r2, c))

SpreadStep == last' # last /\ last'.op = "spread_activation"

\* C39: the activation values spread_activation returns are a function of the
\* graph (nodes, edges, weights) and of the arguments of the call: they depend
\* neither on the activation levels earlier spread_activation,
\* decay_activations or reset_activations calls left nor on the order in
\* which the outgoing edges of a node are visited; and the call changes no
\* node set, edge or weight.
C39_ActivationsDependOnGraphOnly ==
    [][SpreadStep =>
           /\ \A outcome \in spread_activation(reset_activations(nodes_), last'.arg[1],
                                               last'.arg[2], last'.arg[3], last'.arg[4]) :
                  SameValues(outcome.results, last'.ret)
           /\ GraphOf(nodes_') = GraphOf(nodes_)]_vars

(***************************************************************************)
(* Claims on the concept graph under concurrent callers (SpecGraphThreads) *)
(***************************************************************************)
\* C40: the single lock of the concept graph covers every access to node
\* data: no thread reads the edges, the embedding or the activation_level of
\* a node, the reads through the pointer get_node returned included, while
\* another thread runs add_node, add_edge, spread_activation,
\* decay_activations or reset_activations on the graph.
C40_NoReadWhileWriterRuns ==
    /\ last.op = "read_node" => last.during = "free"
    /\ \A t \in Threads : Inside(t) => mutex_ = t
    /\ Cardinality({t \in Threads : Inside(t)}) <= 1
====
